---------------------------- MODULE Spec2Model ----------------------------
(***************************************************************************)
(* A model of pyphi's System Irreducibility Analysis engine                *)
(* (src/pyphi/big_phi.py): the enumeration of system cuts, the generation  *)
(* of nonconflicting distinction sets, PhiStructure construction and       *)
(* evaluation, the short-circuiting extremum search, and the distributed   *)
(* search over compositional states and cuts.                              *)
(*                                                                         *)
(* Each component has its own specification over the shared variables; a   *)
(* component's variable is "idle" in the specifications of the others.     *)
(***************************************************************************)
EXTENDS Integers, Sequences, FiniteSets, TLC

VARIABLES
    gen,    \* the sia_partitions generator: its argument and what it has yielded
    ncs,    \* one call of all_nonconflicting_distinction_sets
    ext,    \* one call of extremum_with_short_circuit
    con,    \* one construction PhiStructure(distinctions, relations)
    ev,     \* one call of evaluate_phi_structure and its batch tasks
    run,    \* one call of sia and its tasks
    cev,    \* one call of evaluate_cut, with any cut
    obj,    \* one PhiStructure instance and the operations called on it
    bc,     \* one search of sia: what it puts in the object store and submits
    occ,    \* the cache of the normalization constants and the calls made
    both    \* one call of sia under each strategy, on the same arguments

vars == <<gen, ncs, ext, con, ev, run, cev, obj, bc, occ, both>>

Idle == [pc |-> "idle"]

(***************************************************************************)
(* Bounds of the model.                                                    *)
(***************************************************************************)
\* node indices a subsystem may be drawn from, for the cut generator
MaxNodes == 5
\* longest cause-effect structure given as input
MaxDistinctions == 2
\* largest small-phi value of a distinction or relation
MaxPhi == 2
\* largest chunk size
MaxChunk == 2
\* longest sequence given to extremum_with_short_circuit
MaxSeq == 4

\* the counts of what was done to an instance stop at MaxCount
MaxCount == 2

(***************************************************************************)
(* Generic helpers.                                                        *)
(***************************************************************************)
RECURSIVE Pow2(_)
Pow2(n) ==
    IF n = 0 THEN 1 ELSE 2 * Pow2(n - 1)

SetMin(S) ==
    CHOOSE x \in S : \A y \in S : x <= y

RECURSIVE SumSeq(_)
SumSeq(s) ==
    IF s = <<>> THEN 0 ELSE Head(s) + SumSeq(Tail(s))

Range(s) ==
    {s[i] : i \in DOMAIN s}

\* The sequences over S of length at most n.
SeqsUpTo(S, n) ==
    UNION {[1..k -> S] : k \in 0..n}

\* A subset of a set of sets, as a sequence in a fixed order.
RECURSIVE SetToSeq(_)
SetToSeq(S) ==
    IF S = {} THEN <<>>
    ELSE LET x == CHOOSE y \in S : TRUE
         IN <<x>> \o SetToSeq(S \ {x})

\* toolz.partition_all: consecutive chunks of n items, the last one shorter.
RECURSIVE partition_all(_, _)
partition_all(n, s) ==
    IF s = <<>> THEN <<>>
    ELSE IF Len(s) <= n THEN <<s>>
    ELSE <<SubSeq(s, 1, n)>> \o partition_all(n, SubSeq(s, n + 1, Len(s)))

(***************************************************************************)
(* Direction (direction.py) and cuts.                                      *)
(***************************************************************************)
CAUSE == "CAUSE"
EFFECT == "EFFECT"

\* Direction.both()
DirectionBoth == <<CAUSE, EFFECT>>

\* The cut of a subsystem that has not been cut (models.cuts.NullCut).
NullCut == [kind |-> "null", from_nodes |-> {}, to_nodes |-> {}]

\* CompleteCut()
CompleteCut == [kind |-> "complete"]

\* BigPhiCut(direction, from_nodes, to_nodes)
BigPhiCut(direction, from_nodes, to_nodes) ==
    [kind |-> "cut", direction |-> direction,
     from_nodes |-> from_nodes, to_nodes |-> to_nodes]

\* compute.subsystem.sia_bipartitions: every nontrivial bipartition of the
\* node set, once, as a (from_nodes, to_nodes) pair.  The part holding the
\* smallest node index is taken as from_nodes.
directionless_sia_bipartitions(node_indices) ==
    IF node_indices = {} THEN <<>>
    ELSE SetToSeq({[from_nodes |-> A, to_nodes |-> node_indices \ A] :
                     A \in {X \in SUBSET node_indices :
                              /\ SetMin(node_indices) \in X
                              /\ X # node_indices}})

\* A plausible slip: only one direction per bipartition.
sia_partitions_one_direction(node_indices) ==
    LET bips == directionless_sia_bipartitions(node_indices)
    IN [i \in 1..Len(bips) |->
          BigPhiCut(CAUSE, bips[i].from_nodes, bips[i].to_nodes)]

\* sia_partitions: for each bipartition, for each direction, one BigPhiCut,
\* in the order the generator yields them.
sia_partitions(node_indices) ==
    LET bips == directionless_sia_bipartitions(node_indices)
    IN [k \in 1..(2 * Len(bips)) |->
          BigPhiCut(DirectionBoth[((k - 1) % 2) + 1],
                    bips[((k - 1) \div 2) + 1].from_nodes,
                    bips[((k - 1) \div 2) + 1].to_nodes)]

(***************************************************************************)
(* The sia_partitions generator, one yield at a time.                      *)
(***************************************************************************)
GenInit ==
    /\ \E S \in SUBSET (0..(MaxNodes - 1)) :
          gen = [pc |-> "running", node_indices |-> S, yielded |-> <<>>]
    /\ ncs = Idle /\ ext = Idle /\ con = Idle /\ ev = Idle /\ run = Idle
       /\ cev = Idle /\ obj = Idle
    /\ bc = Idle /\ occ = Idle /\ both = Idle

\* next(generator) yields the next cut
GenYield ==
    /\ gen.pc = "running"
    /\ Len(gen.yielded) < Len(sia_partitions(gen.node_indices))
    /\ gen' = [gen EXCEPT !.yielded =
                  Append(@, sia_partitions(gen.node_indices)[Len(@) + 1])]
    /\ UNCHANGED <<ncs, ext, con, ev, run, obj, cev, bc, occ, both>>

\* next(generator) raises StopIteration
GenStop ==
    /\ gen.pc = "running"
    /\ Len(gen.yielded) = Len(sia_partitions(gen.node_indices))
    /\ gen' = [gen EXCEPT !.pc = "done"]
    /\ UNCHANGED <<ncs, ext, con, ev, run, obj, cev, bc, occ, both>>

GenNext ==
    \/ GenYield
    \/ GenStop

SpecPartitions == GenInit /\ [][GenNext]_vars

\* C5: for a node set of size n >= 2 the exhausted generator has yielded
\* exactly (2^(n-1) - 1) * 2 cuts, no (from_nodes, to_nodes, direction)
\* triple twice, no cut with an empty side, and every (from_nodes, to_nodes)
\* pair exactly once with CAUSE and once with EFFECT.
C5_PartitionCount ==
    LET n == Cardinality(gen.node_indices)
        y == gen.yielded
        Times(f, t, d) ==
            Cardinality({i \in DOMAIN y : /\ y[i].from_nodes = f
                                          /\ y[i].to_nodes = t
                                          /\ y[i].direction = d})
    IN /\ (gen.pc # "idle" /\ n >= 2) =>
            /\ \A i, j \in DOMAIN y : i # j => y[i] # y[j]
            /\ \A i \in DOMAIN y :
                  /\ y[i].from_nodes # {} /\ y[i].to_nodes # {}
                  /\ y[i].from_nodes \cap y[i].to_nodes = {}
                  /\ y[i].from_nodes \cup y[i].to_nodes = gen.node_indices
       /\ (gen.pc = "done" /\ n >= 2) =>
            /\ Len(y) = (Pow2(n - 1) - 1) * 2
            /\ \A i \in DOMAIN y :
                  /\ Times(y[i].from_nodes, y[i].to_nodes, CAUSE) = 1
                  /\ Times(y[i].from_nodes, y[i].to_nodes, EFFECT) = 1

C5_Witness ==
    /\ gen.pc = "done"
    /\ Cardinality(gen.node_indices) = 3
    /\ Len(gen.yielded) = 6

(***************************************************************************)
(* Distinctions and cause-effect structures.                               *)
(***************************************************************************)
\* subsystem.node_indices: the subsystem under analysis has two nodes, so
\* that it has one bipartition and two cuts.
Nodes == {0, 1}

Mechanisms == (SUBSET Nodes) \ {{}}

Purviews == (SUBSET Nodes) \ {{}}

\* A distinction (a concept): a mechanism, its cause and effect purviews and
\* its small phi.
Distinctions ==
    [mechanism : Mechanisms, cause : Purviews, effect : Purviews,
     phi : 1..MaxPhi]

\* distinction.purview(direction)
purview(distinction, direction) ==
    IF direction = CAUSE THEN distinction.cause ELSE distinction.effect

\* A CauseEffectStructure is the sequence of its distinctions; a
\* FlatCauseEffectStructure is the sequence of their MICE, cause before
\* effect.
StructuredCES(distinctions) ==
    [kind |-> "ces", items |-> distinctions]

Mice(distinction, direction) ==
    [mechanism |-> distinction.mechanism, direction |-> direction,
     purview |-> purview(distinction, direction), phi |-> distinction.phi]

\* FlatCauseEffectStructure(ces)
FlatCauseEffectStructure(ces) ==
    [kind |-> "flat",
     items |-> [k \in 1..(2 * Len(ces.items)) |->
                  Mice(ces.items[((k - 1) \div 2) + 1],
                       DirectionBoth[((k - 1) % 2) + 1])]]

\* FlatCauseEffectStructure.unflatten()
unflatten(flat) ==
    [kind |-> "ces",
     items |-> [i \in 1..(Len(flat.items) \div 2) |->
                  [mechanism |-> flat.items[2 * i - 1].mechanism,
                   cause |-> flat.items[2 * i - 1].purview,
                   effect |-> flat.items[2 * i].purview,
                   phi |-> flat.items[2 * i - 1].phi]]]

\* Any sequence of distinctions as a structured cause-effect structure.
AnyCES ==
    {StructuredCES(s) : s \in SeqsUpTo(Distinctions, MaxDistinctions)}

\* The cause-effect structures of a subsystem: one distinction per mechanism.
InputCES ==
    {c \in AnyCES : \A i, j \in DOMAIN c.items :
                        c.items[i].mechanism = c.items[j].mechanism => i = j}

(***************************************************************************)
(* all_nonconflicting_distinction_sets.                                    *)
(***************************************************************************)
\* toolz.unique, and the keys of a dict in insertion order: the items of s
\* without the repeats of an earlier item.
RECURSIVE unique(_)
unique(s) ==
    IF s = <<>> THEN <<>>
    ELSE LET front == unique(SubSeq(s, 1, Len(s) - 1))
         IN IF s[Len(s)] \in Range(front) THEN front
            ELSE Append(front, s[Len(s)])

\* mechanism_to_distinction: a dict comprehension, so a mechanism met again
\* keeps its place and takes the later distinction.
mechanism_to_distinction(distinctions) ==
    LET keys == unique([i \in DOMAIN distinctions |-> distinctions[i].mechanism])
        last(m) == CHOOSE i \in DOMAIN distinctions :
                      /\ distinctions[i].mechanism = m
                      /\ \A j \in DOMAIN distinctions :
                            distinctions[j].mechanism = m => j <= i
    IN [k \in DOMAIN keys |->
          [mechanism |-> keys[k], distinction |-> distinctions[last(keys[k])]]]

\* purview_to_mechanism[direction]: each purview, in insertion order, with
\* the list of the mechanisms that specify it.
purview_to_mechanism(m2d, direction) ==
    LET PurviewOf(entry) == purview(entry.distinction, direction)
        keys == unique([i \in DOMAIN m2d |-> PurviewOf(m2d[i])])
    IN [k \in DOMAIN keys |->
          [purview |-> keys[k],
           mechanisms |->
              LET Hit(entry) == PurviewOf(entry) = keys[k]
                  hits == SelectSeq(m2d, Hit)
              IN [i \in DOMAIN hits |-> hits[i].mechanism]]]

\* itertools.product(*lists): one tuple per choice of an item of each list,
\* the last list varying fastest.
RECURSIVE Product(_)
Product(lists) ==
    IF lists = <<>> THEN << <<>> >>
    ELSE LET front == Product(SubSeq(lists, 1, Len(lists) - 1))
             last == lists[Len(lists)]
         IN [k \in 1..(Len(front) * Len(last)) |->
               Append(front[((k - 1) \div Len(last)) + 1],
                      last[((k - 1) % Len(last)) + 1])]

\* A plausible slip: the last purview is left out of the product.
nonconflicting_mice_set_short(p2m) ==
    LET tuples == Product([k \in 1..(Len(p2m) - 1) |-> p2m[k].mechanisms])
    IN [k \in DOMAIN tuples |-> Range(tuples[k])]

\* _nonconflicting_mice_set: map(frozenset, product(*purview_to_mice.values()))
nonconflicting_mice_set(p2m) ==
    LET tuples == Product([k \in DOMAIN p2m |-> p2m[k].mechanisms])
    IN [k \in DOMAIN tuples |-> Range(tuples[k])]

\* A plausible slip: the union of the two sides instead of the intersection.
nonconflicting_mechanisms_union(causes, effects) ==
    unique([k \in 1..(Len(causes) * Len(effects)) |->
              causes[((k - 1) \div Len(effects)) + 1]
                \cup effects[((k - 1) % Len(effects)) + 1]])

\* nonconflicting_mechanisms: unique(c & e for c, e in product(causes, effects))
nonconflicting_mechanisms(causes, effects) ==
    unique([k \in 1..(Len(causes) * Len(effects)) |->
              causes[((k - 1) \div Len(effects)) + 1]
                \cap effects[((k - 1) % Len(effects)) + 1]])

\* all_nonconflicting_distinction_sets(distinctions), for a structured
\* CauseEffectStructure: the sequence of the cause-effect structures the
\* generator yields.  The distinctions of a yielded structure are listed in
\* the order of mechanism_to_distinction.
all_nonconflicting_distinction_sets(distinctions) ==
    LET m2d == mechanism_to_distinction(distinctions.items)
        sets == nonconflicting_mechanisms(
                    nonconflicting_mice_set(purview_to_mechanism(m2d, CAUSE)),
                    nonconflicting_mice_set(purview_to_mechanism(m2d, EFFECT)))
    IN [k \in DOMAIN sets |->
          LET In(entry) == entry.mechanism \in sets[k]
              hits == SelectSeq(m2d, In)
          IN StructuredCES([i \in DOMAIN hits |-> hits[i].distinction])]

(***************************************************************************)
(* One call of all_nonconflicting_distinction_sets, one yield at a time.   *)
(***************************************************************************)
NcsStart(inputs) ==
    /\ \E c \in inputs : \E flat \in BOOLEAN :
          ncs = [pc |-> "running",
                 distinctions |-> IF flat THEN FlatCauseEffectStructure(c)
                                  ELSE c,
                 \* what the generator has still to yield
                 pending |-> IF flat THEN <<>>
                             ELSE all_nonconflicting_distinction_sets(c),
                 yielded |-> <<>>]
    /\ gen = Idle /\ ext = Idle /\ con = Idle /\ ev = Idle /\ run = Idle
       /\ cev = Idle /\ obj = Idle
    /\ bc = Idle /\ occ = Idle /\ both = Idle

\* the argument is the cause-effect structure of a subsystem, or its flat form
NcsInit == NcsStart(InputCES)

\* the argument is any sequence of distinctions, or its flat form
NcsInitAny == NcsStart(AnyCES)

\* the generator's body starts and raises ValueError for a flat structure
NcsRaise ==
    /\ ncs.pc = "running"
    /\ ncs.distinctions.kind = "flat"
    /\ ncs' = [ncs EXCEPT !.pc = "ValueError"]
    /\ UNCHANGED <<gen, ext, con, ev, run, obj, cev, bc, occ, both>>

\* the generator yields its next cause-effect structure
NcsYield ==
    /\ ncs.pc = "running"
    /\ ncs.distinctions.kind = "ces"
    /\ ncs.pending # <<>>
    /\ ncs' = [ncs EXCEPT !.yielded = Append(@, Head(ncs.pending)),
                          !.pending = Tail(@)]
    /\ UNCHANGED <<gen, ext, con, ev, run, obj, cev, bc, occ, both>>

\* the generator is exhausted
NcsStop ==
    /\ ncs.pc = "running"
    /\ ncs.distinctions.kind = "ces"
    /\ ncs.pending = <<>>
    /\ ncs' = [ncs EXCEPT !.pc = "done"]
    /\ UNCHANGED <<gen, ext, con, ev, run, obj, cev, bc, occ, both>>

NcsNext ==
    \/ NcsRaise
    \/ NcsYield
    \/ NcsStop

SpecNonconflicting == NcsInit /\ [][NcsNext]_vars

SpecNonconflictingAny == NcsInitAny /\ [][NcsNext]_vars

\* The set of mechanisms of a cause-effect structure.
MechanismSet(ces) ==
    {ces.items[i].mechanism : i \in DOMAIN ces.items}

\* At most one distinction of the sequence specifies each purview, in each
\* direction.
ConflictFree(items) ==
    \A i, j \in DOMAIN items : \A d \in Range(DirectionBoth) :
        purview(items[i], d) = purview(items[j], d) => i = j

\* C6: every yielded cause-effect structure is a conflict-free subset of the
\* input distinctions, and no two yielded structures have the same set of
\* mechanisms.
C6_ConflictFree ==
    ncs.pc # "idle" =>
        /\ \A k \in DOMAIN ncs.yielded :
              /\ Range(ncs.yielded[k].items) \subseteq Range(ncs.distinctions.items)
              /\ ConflictFree(ncs.yielded[k].items)
        /\ \A k, l \in DOMAIN ncs.yielded :
              MechanismSet(ncs.yielded[k]) = MechanismSet(ncs.yielded[l]) => k = l

\* the two distinctions conflict on both sides: of the four pairs of a cause
\* choice and an effect choice, two give the same (empty) set of mechanisms
C6_Witness ==
    /\ ncs.pc = "done"
    /\ Len(ncs.distinctions.items) = 2
    /\ Len(ncs.yielded) = 3
    /\ \E k \in DOMAIN ncs.yielded : Len(ncs.yielded[k].items) = 1

\* C7: every yielded cause-effect structure is maximal: no input distinction
\* outside it can be added to it without a conflict.
C7_Maximal ==
    ncs.pc # "idle" =>
        \A k \in DOMAIN ncs.yielded :
            \A i \in DOMAIN ncs.distinctions.items :
                LET d == ncs.distinctions.items[i]
                IN d \notin Range(ncs.yielded[k].items)
                     => ~ConflictFree(Append(ncs.yielded[k].items, d))

\* Some mechanism appears in two distinctions of the sequence with the same
\* purview in some direction.
RepeatedMechanism(items) ==
    \E i, j \in DOMAIN items : \E d \in Range(DirectionBoth) :
        /\ i # j
        /\ items[i].mechanism = items[j].mechanism
        /\ purview(items[i], d) = purview(items[j], d)

\* C8: given a structure in which a mechanism appears in more than one
\* distinction for the same purview and direction, the call signals an error:
\* it yields nothing and does not finish normally.
C8_RepeatedMechanismRaises ==
    (ncs.pc # "idle" /\ ncs.distinctions.kind = "ces"
       /\ RepeatedMechanism(ncs.distinctions.items))
        => (ncs.yielded = <<>> /\ ncs.pc # "done")

\* No mechanism of the sequence specifies more than one purview in a direction.
OnePurviewPerMechanism(items) ==
    \A i, j \in DOMAIN items : \A d \in Range(DirectionBoth) :
        items[i].mechanism = items[j].mechanism
            => purview(items[i], d) = purview(items[j], d)

\* The call finished having yielded exactly one structure, which holds
\* exactly the input's distinctions.
YieldedTheInputOnly ==
    /\ Len(ncs.yielded) = 1
    /\ Range(ncs.yielded[1].items) = Range(ncs.distinctions.items)

\* C9 as stated: for a structured input in which no mechanism specifies more
\* than one purview per direction, exactly one structure is yielded, holding
\* exactly the input's distinctions.
C9_Original ==
    (ncs.pc = "done" /\ OnePurviewPerMechanism(ncs.distinctions.items))
        => YieldedTheInputOnly

\* C9 as amended: the same, for a structured input in which moreover no
\* purview is specified by more than one distinction per direction.
C9_OneStateWithoutConflict ==
    (ncs.pc = "done" /\ OnePurviewPerMechanism(ncs.distinctions.items)
       /\ ConflictFree(ncs.distinctions.items))
        => YieldedTheInputOnly

C9_Witness ==
    /\ ncs.pc = "done"
    /\ Len(ncs.distinctions.items) = 2
    /\ OnePurviewPerMechanism(ncs.distinctions.items)
    /\ ConflictFree(ncs.distinctions.items)
    /\ YieldedTheInputOnly

(***************************************************************************)
(* Numbers.  A phi value is the exact fraction num/den with den >= 0; the  *)
(* initial extreme value float("inf") is 1/0.                              *)
(***************************************************************************)
Rat(num, den) ==
    [num |-> num, den |-> den]

Inf == Rat(1, 0)

RatLT(a, b) ==
    a.num * b.den < b.num * a.den

RatEq(a, b) ==
    a.num * b.den = b.num * a.den

\* value == 0
IsZero(a) ==
    a.num = 0 /\ a.den # 0

\* an absent value (None, or an attribute that is not set) and a present one
None == {}

Some(v) == {v}

The(opt) ==
    CHOOSE v \in opt : TRUE

\* scipy.special.comb(n, k)
RECURSIVE comb(_, _)
comb(n, k) ==
    IF k = 0 \/ k = n THEN 1
    ELSE IF k < 0 \/ k > n THEN 0
    ELSE comb(n - 1, k - 1) + comb(n - 1, k)

\* number_of_possible_relations_with_overlap(n, k)
number_of_possible_relations_with_overlap(n, k) ==
    (IF (k - 1) % 2 = 0 THEN 1 ELSE -1)
      * comb(n, k)
      * (Pow2(Pow2(n - k + 1)) - 1 - Pow2(n - k + 1))

\* optimum_sum_small_phi_relations(n)
optimum_sum_small_phi_relations(n) ==
    SumSeq([k \in 1..n |-> k * number_of_possible_relations_with_overlap(n, k)])

\* optimum_sum_small_phi_distinctions_one_direction(n): (2 / n) * (2 ** n)
optimum_sum_small_phi_distinctions_one_direction(n) ==
    Rat(2 * Pow2(n), n)

\* optimum_sum_small_phi(n): twice the distinction term plus the relation term
optimum_sum_small_phi(n) ==
    LET one == optimum_sum_small_phi_distinctions_one_direction(n)
    IN Rat(2 * one.num + optimum_sum_small_phi_relations(n) * one.den, one.den)

(***************************************************************************)
(* Relations.  A relation has the MICE it relates and a small phi; a       *)
(* relations argument is a realized collection, a generator, or a remote   *)
(* handle (ray.ObjectRef) to a realized collection.                        *)
(***************************************************************************)
Relations(items) ==
    [kind |-> "realized", items |-> items]

\* The relation among the cause MICE of all the distinctions of a sequence.
CauseRelation(items, phi) ==
    [relata |-> {Mice(items[i], CAUSE) : i \in DOMAIN items}, phi |-> phi]

\* The relation collections given with a cause-effect structure: none, or
\* the one relation among the cause MICE of its distinctions.
InputRelationItems(ces) ==
    {<<>>} \cup (IF Len(ces.items) >= 2
                 THEN {<<CauseRelation(ces.items, 1)>>} ELSE {})

\* unaffected_relations(ces, relations): the relations all of whose relata
\* are in the flat form of ces; none for an empty ces.
unaffected_relations(ces, relations) ==
    IF ces.items = <<>> THEN Relations(<<>>)
    ELSE LET flat == FlatCauseEffectStructure(ces)
             Supported(relation) == relation.relata \subseteq Range(flat.items)
         IN Relations(SelectSeq(relations.items, Supported))

(***************************************************************************)
(* PhiStructure.                                                           *)
(***************************************************************************)
\* the outcome of a call: a value, or a raised exception
Ok(value) ==
    [ok |-> TRUE, value |-> value]

Raise(error) ==
    [ok |-> FALSE, error |-> error]

\* A plausible slip: no check that the distinctions are a CauseEffectStructure.
PhiStructureInitUnchecked(distinctions, relations, requires_filter) ==
    Ok([requires_filter |-> requires_filter,
        distinctions |-> distinctions,
        relations |-> relations,
        system_intrinsic_information |-> None,
        sum_phi_distinctions |-> None,
        sum_phi_relations |-> None,
        selectivity |-> None,
        substrate_size |-> IF distinctions.items # <<>>
                           THEN Some(Cardinality(Nodes)) ELSE None])

\* PhiStructure.__init__: a FlatCauseEffectStructure is a CauseEffectStructure
\* and is unflattened; _substrate_size is set only for nonempty distinctions.
PhiStructureInit(distinctions, relations, requires_filter) ==
    IF distinctions.kind \notin {"ces", "flat"}
    THEN Raise("ValueError")
    ELSE LET structured == IF distinctions.kind = "flat"
                           THEN unflatten(distinctions) ELSE distinctions
         IN Ok([requires_filter |-> requires_filter,
                distinctions |-> structured,
                relations |-> relations,
                system_intrinsic_information |-> None,
                sum_phi_distinctions |-> None,
                sum_phi_relations |-> None,
                selectivity |-> None,
                substrate_size |-> IF structured.items # <<>>
                                   THEN Some(Cardinality(Nodes)) ELSE None])

(***************************************************************************)
(* One construction PhiStructure(distinctions, relations, requires_filter).*)
(***************************************************************************)
ConInit ==
    /\ \E c \in InputCES : \E kind \in {"ces", "flat", "list"} :
       \E r \in InputRelationItems(c) : \E f \in BOOLEAN :
          con = [pc |-> "call",
                 distinctions |->
                    CASE kind = "ces" -> c
                      [] kind = "flat" -> FlatCauseEffectStructure(c)
                      [] kind = "list" -> [kind |-> "list", items |-> c.items],
                 relations |-> Relations(r),
                 requires_filter |-> f,
                 structure |-> None]
    /\ gen = Idle /\ ncs = Idle /\ ext = Idle /\ ev = Idle /\ run = Idle
       /\ cev = Idle /\ obj = Idle
    /\ bc = Idle /\ occ = Idle /\ both = Idle

\* the constructor returns a PhiStructure
ConConstruct ==
    /\ con.pc = "call"
    /\ LET made == PhiStructureInit(con.distinctions, con.relations,
                                    con.requires_filter)
       IN /\ made.ok
          /\ con' = [con EXCEPT !.pc = "constructed",
                                !.structure = Some(made.value)]
    /\ UNCHANGED <<gen, ncs, ext, ev, run, obj, cev, bc, occ, both>>

\* the constructor raises
ConRaise ==
    /\ con.pc = "call"
    /\ LET made == PhiStructureInit(con.distinctions, con.relations,
                                    con.requires_filter)
       IN /\ ~made.ok
          /\ con' = [con EXCEPT !.pc = made.error]
    /\ UNCHANGED <<gen, ncs, ext, ev, run, obj, cev, bc, occ, both>>

ConNext ==
    \/ ConConstruct
    \/ ConRaise

SpecPhiStructure == ConInit /\ [][ConNext]_vars

\* C10 as stated: a construction from distinctions that are not a
\* CauseEffectStructure, or that are a FlatCauseEffectStructure, ends in a
\* validation error and produces no PhiStructure.
C10_Original ==
    (con.pc \notin {"idle", "call"} /\ con.distinctions.kind \in {"list", "flat"})
        => (con.pc = "ValueError" /\ con.structure = None)

\* C10 as amended: a construction from distinctions that are not a
\* CauseEffectStructure ends in a validation error and produces no
\* PhiStructure; a construction from a FlatCauseEffectStructure succeeds and
\* the PhiStructure holds the unflattened, structured distinctions.
C10_RejectsNonCES ==
    /\ (con.pc \notin {"idle", "call"} /\ con.distinctions.kind = "list")
          => (con.pc = "ValueError" /\ con.structure = None)
    /\ (con.pc \notin {"idle", "call"} /\ con.distinctions.kind = "flat")
          => /\ con.pc = "constructed"
             /\ con.structure # None
             /\ The(con.structure).distinctions.kind = "ces"
             /\ FlatCauseEffectStructure(The(con.structure).distinctions)
                   = con.distinctions

C10_Witness ==
    /\ con.pc = "ValueError"
    /\ con.distinctions.kind = "list"
    /\ Len(con.distinctions.items) = 2
    /\ con.structure = None

(***************************************************************************)
(* extremum_with_short_circuit, with the arguments every caller gives:     *)
(* value_func = item.phi, cmp = operator.lt, initial = float("inf"),       *)
(* shortcircuit_value = 0.                                                 *)
(***************************************************************************)
\* the function's locals before the loop
ExtremumStart ==
    [pc |-> "loop", extreme_item |-> [kind |-> "None"], extreme_value |-> Inf,
     calls |-> 0, result |-> [kind |-> "None"]]

\* What calling shortcircuit_callback does: None is not callable (TypeError),
\* a callback may return, raise TypeError, or raise another exception.
CallbackKinds == {"none", "returns", "TypeError", "error"}

\* A plausible slip: the short circuit does not return, the scan goes on.
extremum_step_no_return(st, item, callback) ==
    IF item.phi.num = 0 /\ item.phi.den # 0
    THEN [st EXCEPT !.calls = IF callback = "none" THEN @ ELSE @ + 1]
    ELSE IF RatLT(item.phi, st.extreme_value)
         THEN [st EXCEPT !.extreme_value = item.phi, !.extreme_item = item]
         ELSE st

\* A plausible slip: no comparison, the latest item is kept.
extremum_step_latest(st, item, callback) ==
    IF item.phi.num = 0 /\ item.phi.den # 0
    THEN [st EXCEPT !.calls = IF callback = "none" THEN @ ELSE @ + 1,
                    !.pc = IF callback = "error" THEN "raised" ELSE "returned",
                    !.result = IF callback = "error" THEN @ ELSE item]
    ELSE [st EXCEPT !.extreme_value = item.phi, !.extreme_item = item]

\* One iteration of the loop over seq, for the next item.
extremum_step(st, item, callback) ==
    IF IsZero(item.phi)
    THEN \* try: shortcircuit_callback() except TypeError: pass; return item
         [st EXCEPT !.calls = IF callback = "none" THEN @ ELSE @ + 1,
                    !.pc = IF callback = "error" THEN "raised" ELSE "returned",
                    !.result = IF callback = "error" THEN @ ELSE item]
    ELSE IF RatLT(item.phi, st.extreme_value)
         THEN [st EXCEPT !.extreme_value = item.phi, !.extreme_item = item]
         ELSE st

\* the loop is over: return extreme_item
extremum_return(st) ==
    [st EXCEPT !.pc = "returned", !.result = st.extreme_item]

\* extremum_with_short_circuit(seq, shortcircuit_callback=callback), run to
\* its end from the locals st.
RECURSIVE extremum_loop(_, _, _)
extremum_loop(st, seq, callback) ==
    IF st.pc # "loop" THEN st
    ELSE IF seq = <<>> THEN extremum_return(st)
    ELSE extremum_loop(extremum_step(st, Head(seq), callback), Tail(seq), callback)

extremum_with_short_circuit(seq, callback) ==
    extremum_loop(ExtremumStart, seq, callback)

(***************************************************************************)
(* One call of extremum_with_short_circuit, one item at a time.            *)
(***************************************************************************)
ExtInit ==
    /\ \E values \in SeqsUpTo(0..MaxPhi, MaxSeq) : \E callback \in CallbackKinds :
          ext = [seq |-> [i \in DOMAIN values |->
                            [kind |-> "item", id |-> i, phi |-> Rat(values[i], 1)]],
                 callback |-> callback,
                 consumed |-> 0,
                 st |-> ExtremumStart]
    /\ gen = Idle /\ ncs = Idle /\ con = Idle /\ ev = Idle /\ run = Idle
       /\ cev = Idle /\ obj = Idle
    /\ bc = Idle /\ occ = Idle /\ both = Idle

\* the loop takes the next item of seq
ExtIterate ==
    /\ ext # Idle
    /\ ext.st.pc = "loop"
    /\ ext.consumed < Len(ext.seq)
    /\ ext' = [ext EXCEPT !.consumed = @ + 1,
                          !.st = extremum_step(@, ext.seq[ext.consumed + 1],
                                               ext.callback)]
    /\ UNCHANGED <<gen, ncs, con, ev, run, obj, cev, bc, occ, both>>

\* seq is exhausted
ExtReturn ==
    /\ ext # Idle
    /\ ext.st.pc = "loop"
    /\ ext.consumed = Len(ext.seq)
    /\ ext' = [ext EXCEPT !.st = extremum_return(@)]
    /\ UNCHANGED <<gen, ncs, con, ev, run, obj, cev, bc, occ, both>>

ExtNext ==
    \/ ExtIterate
    \/ ExtReturn

SpecExtremum == ExtInit /\ [][ExtNext]_vars

\* The positions of the items of seq whose score is the shortcircuit value.
ZeroPositions(seq) ==
    {i \in DOMAIN seq : IsZero(seq[i].phi)}

\* C3: when seq holds an item whose score is the shortcircuit value, no item
\* after the first such item is consumed, the callback is not invoked before
\* that item is reached and is invoked exactly once when supplied, and the
\* call (unless the callback raises an exception other than TypeError)
\* returns that first item, whose score is the shortcircuit value.
C3_ShortCircuit ==
    (ext # Idle /\ ZeroPositions(ext.seq) # {}) =>
        LET first == SetMin(ZeroPositions(ext.seq))
        IN /\ ext.consumed <= first
           /\ ext.consumed < first => (ext.st.pc = "loop" /\ ext.st.calls = 0)
           /\ ext.consumed = first =>
                 /\ ext.st.calls = IF ext.callback = "none" THEN 0 ELSE 1
                 /\ ext.callback # "error" =>
                       /\ ext.st.pc = "returned"
                       /\ ext.st.result = ext.seq[first]
                       /\ IsZero(ext.st.result.phi)

C3_Witness ==
    /\ ext # Idle
    /\ ext.st.pc = "returned"
    /\ Len(ext.seq) = 4
    /\ ZeroPositions(ext.seq) = {3, 4}
    /\ ext.consumed = 3
    /\ ext.callback = "returns"
    /\ ext.st.calls = 1
    /\ ext.st.result = ext.seq[3]

\* C17: once the item whose score is the shortcircuit value has been taken,
\* the call has returned that item, whatever the callback did: return, or
\* fail with TypeError or with any other exception.
C17_FailureSwallowed ==
    (/\ ext # Idle
     /\ ZeroPositions(ext.seq) # {}
     /\ ext.consumed = SetMin(ZeroPositions(ext.seq))) =>
        /\ ext.st.pc = "returned"
        /\ ext.st.result = ext.seq[SetMin(ZeroPositions(ext.seq))]

(***************************************************************************)
(* Cuts applied to a PhiStructure.                                         *)
(***************************************************************************)
\* the subsystem under analysis; it has not been cut itself
Subsystem == [node_indices |-> Nodes, cut |-> NullCut]

\* A plausible slip: either side of the cut is enough.
is_affected_by_cut_either(distinction, cut) ==
    IF cut.kind = "complete" THEN TRUE
    ELSE \/ cut.from_nodes \cap distinction.mechanism # {}
         \/ cut.to_nodes \cap purview(distinction, cut.direction) # {}

\* is_affected_by_cut(distinction, cut)
is_affected_by_cut(distinction, cut) ==
    IF cut.kind = "complete" THEN TRUE
    ELSE /\ cut.from_nodes \cap distinction.mechanism # {}
         /\ cut.to_nodes \cap purview(distinction, cut.direction) # {}

\* A plausible slip: the CompleteCut case gives back the whole structure.
unaffected_distinctions_keep_all(ces, cut) ==
    IF cut.kind = "complete" THEN ces
    ELSE LET Unaffected(distinction) == ~is_affected_by_cut(distinction, cut)
         IN StructuredCES(SelectSeq(ces.items, Unaffected))

\* unaffected_distinctions(ces, cut)
unaffected_distinctions(ces, cut) ==
    IF cut.kind = "complete" THEN StructuredCES(<<>>)
    ELSE LET Unaffected(distinction) == ~is_affected_by_cut(distinction, cut)
         IN StructuredCES(SelectSeq(ces.items, Unaffected))

\* A plausible slip: the kept relations are added to the collection, not put
\* in its place.
filter_relations_appends(ps) ==
    [ps EXCEPT !.relations =
                   [kind |-> "realized",
                    items |-> ps.relations.items
                                \o unaffected_relations(ps.distinctions,
                                                        ps.relations).items],
               !.requires_filter = FALSE]

\* A plausible slip: the flag is left set after the filter.
filter_relations_keeps_flag(ps) ==
    [ps EXCEPT !.relations = unaffected_relations(ps.distinctions, ps.relations)]

\* filter_relations()
filter_relations(ps) ==
    [ps EXCEPT !.relations = unaffected_relations(ps.distinctions, ps.relations),
               !.requires_filter = FALSE]

\* What the _requires_relations wrapper does to the object before the
\* wrapped method runs: fetch a remote collection, filter if the flag is
\* set, realize a generator.
RayGet(ps) ==
    IF ps.relations.kind = "remote"
    THEN [ps EXCEPT !.relations.kind = "realized"] ELSE ps

FilterIfRequired(ps) ==
    IF ps.requires_filter THEN filter_relations(ps) ELSE ps

RealizeGenerator(ps) ==
    IF ps.relations.kind = "generator"
    THEN [ps EXCEPT !.relations.kind = "realized"] ELSE ps

requires_relations(ps) ==
    RealizeGenerator(FilterIfRequired(RayGet(ps)))

\* PhiStructure.realize()
realize(ps) ==
    requires_relations(ps)

\* PartitionedPhiStructure.__init__(phi_structure, cut): the parent is
\* realized and its values are lifted; reading a _substrate_size that was
\* never set raises AttributeError.
PartitionedOf(unpartitioned, base, cut) ==
    IF ~base.ok THEN base
    ELSE IF unpartitioned.substrate_size = None THEN Raise("AttributeError")
    ELSE Ok([unpartitioned_phi_structure |-> unpartitioned,
             cut |-> cut,
             requires_filter |-> FALSE,
             distinctions |-> base.value.distinctions,
             relations |-> base.value.relations,
             system_intrinsic_information |->
                 unpartitioned.system_intrinsic_information,
             substrate_size |-> unpartitioned.substrate_size,
             sum_phi_distinctions |-> unpartitioned.sum_phi_distinctions,
             sum_phi_relations |-> unpartitioned.sum_phi_relations,
             selectivity |-> unpartitioned.selectivity])

SuperInit(unpartitioned) ==
    PhiStructureInit(unpartitioned.distinctions, unpartitioned.relations, FALSE)

PartitionedFrom(unpartitioned, cut) ==
    PartitionedOf(unpartitioned, SuperInit(unpartitioned), cut)

PartitionedPhiStructure(ps, cut) ==
    PartitionedFrom(realize(ps), cut)

\* PhiStructure.partition(cut)
partition(ps, cut) ==
    PartitionedPhiStructure(ps, cut)

\* sum(ces.phis), sum(relations.phis)
SumPhi(items) ==
    SumSeq([i \in DOMAIN items |-> items[i].phi])

\* sum_phi_distinctions(), taking a value already held
sum_phi_distinctions(ps) ==
    IF ps.sum_phi_distinctions # None THEN The(ps.sum_phi_distinctions)
    ELSE SumPhi(ps.distinctions.items)

\* sum_phi_relations(), taking a value already held
sum_phi_relations(ps) ==
    IF ps.sum_phi_relations # None THEN The(ps.sum_phi_relations)
    ELSE SumPhi(requires_relations(ps).relations.items)

\* selectivity(), taking a value already held
Divide(total, optimum) ==
    Rat(total * optimum.den, optimum.num)

selectivity(ps) ==
    IF ps.selectivity # None THEN The(ps.selectivity)
    ELSE Divide(sum_phi_distinctions(ps) + sum_phi_relations(ps),
                optimum_sum_small_phi(The(ps.substrate_size)))

\* partitioned_distinctions()
partitioned_distinctions(pps) ==
    unaffected_distinctions(pps.distinctions, pps.cut)

\* partitioned_relations()
partitioned_relations(pps) ==
    unaffected_relations(partitioned_distinctions(pps),
                         requires_relations(pps).relations)

\* sum_phi_partitioned_distinctions()
sum_phi_partitioned_distinctions(pps) ==
    SumPhi(partitioned_distinctions(pps).items)

\* sum_phi_partitioned_relations()
sum_phi_partitioned_relations(pps) ==
    SumPhi(partitioned_relations(pps).items)

\* A plausible slip: the subtraction the wrong way round.
distinction_term_swapped(pps) ==
    sum_phi_partitioned_distinctions(pps) - sum_phi_distinctions(pps)

\* the two terms of informativeness()
distinction_term(pps) ==
    sum_phi_distinctions(pps) - sum_phi_partitioned_distinctions(pps)

relation_term(pps) ==
    sum_phi_relations(pps) - sum_phi_partitioned_relations(pps)

\* informativeness()
informativeness(pps) ==
    distinction_term(pps) + relation_term(pps)

\* PartitionedPhiStructure.phi(): selectivity() * informativeness()
Times(sel, inf) ==
    Rat(sel.num * inf, sel.den)

phi(pps) ==
    Times(selectivity(pps), informativeness(pps))

\* SystemIrreducibilityAnalysis(...), naming its phi_structure by its
\* distinctions
SystemIrreducibilityAnalysis(ps, cut, sel, inf, bigphi) ==
    [kind |-> "sia", distinctions |-> ps.distinctions, cut |-> cut,
     selectivity |-> sel, informativeness |-> inf, phi |-> bigphi]

\* evaluate_cut(subsystem, phi_structure, cut)
EvaluatePartitioned(subsystem, ps, made) ==
    IF ~made.ok THEN made
    ELSE Ok(SystemIrreducibilityAnalysis(
                ps, made.value.cut, Some(selectivity(made.value)),
                Some(informativeness(made.value)), phi(made.value)))

evaluate_cut(subsystem, ps, cut) ==
    EvaluatePartitioned(subsystem, ps, partition(ps, cut))

(***************************************************************************)
(* Reducibility checks and the null SIA.                                   *)
(***************************************************************************)
\* has_nonspecified_elements(subsystem, distinctions)
has_nonspecified_elements(subsystem, distinctions) ==
    \E direction \in Range(DirectionBoth) :
        subsystem.node_indices
          \ UNION {purview(distinctions.items[i], direction) :
                     i \in DOMAIN distinctions.items} # {}

\* has_no_spanning_specification(subsystem, distinctions)
has_no_spanning_specification(subsystem, distinctions) ==
    FALSE

\* is_trivially_reducible(subsystem, phi_structure)
is_trivially_reducible(subsystem, ps) ==
    \/ has_nonspecified_elements(subsystem, ps.distinctions)
    \/ has_no_spanning_specification(subsystem, ps.distinctions)

\* _null_sia(subsystem, phi_structure)
NullOfPartitioned(ps, made) ==
    IF ~made.ok THEN made
    ELSE Ok(SystemIrreducibilityAnalysis(ps, made.value.cut, None, None, Rat(0, 1)))

null_sia(subsystem, ps) ==
    IF subsystem.cut.kind # "null" THEN Raise("ValueError")
    ELSE NullOfPartitioned(ps, partition(ps, subsystem.cut))

(***************************************************************************)
(* evaluate_phi_structure and its batch tasks.                             *)
(***************************************************************************)
\* the items a batch task scans: evaluate_cut of each of its cuts, up to the
\* first one that raises
RECURSIVE EvaluatedCuts(_, _, _)
EvaluatedCuts(subsystem, ps, cuts) ==
    IF cuts = <<>> THEN <<>>
    ELSE IF ~evaluate_cut(subsystem, ps, Head(cuts)).ok
         THEN <<Raise(evaluate_cut(subsystem, ps, Head(cuts)).error)>>
         ELSE <<evaluate_cut(subsystem, ps, Head(cuts))>>
                \o EvaluatedCuts(subsystem, ps, Tail(cuts))

\* _evaluate_cuts(subsystem, phi_structure, cuts): the one item the local
\* extremum_with_short_circuit returns, or the exception of an evaluate_cut
\* reached by the scan.
RECURSIVE evaluate_cuts_loop(_, _)
evaluate_cuts_loop(st, made) ==
    IF st.pc # "loop" THEN Ok(st.result)
    ELSE IF made = <<>> THEN Ok(extremum_return(st).result)
    ELSE IF ~Head(made).ok THEN Head(made)
    ELSE evaluate_cuts_loop(extremum_step(st, Head(made).value, "none"), Tail(made))

evaluate_cuts(subsystem, ps, cuts) ==
    evaluate_cuts_loop(ExtremumStart, EvaluatedCuts(subsystem, ps, cuts))

\* the batches of cuts evaluate_phi_structure submits
CutBatches(subsystem, chunksize) ==
    partition_all(chunksize, sia_partitions(subsystem.node_indices))

\* The kinds of collection a phi structure's relations arrive as: realized,
\* a generator, or a remote handle.
RelationKinds == {"realized", "generator", "remote"}

\* The compositional states of a subsystem: conflict-free cause-effect
\* structures, one distinction per mechanism, in a fixed order.
CompositionalStates ==
    {c \in InputCES : /\ ConflictFree(c.items)
                      /\ c.items = SetToSeq(Range(c.items))}

\* evaluate_phi_structure is called with a phi structure over a compositional
\* state of the subsystem, filtered or still to filter.
EvCall(ps, check, chunksize) ==
    [pc |-> "call",
     phi_structure |-> ps,
     check_trivial_reducibility |-> check,
     chunksize |-> chunksize,
     tasks |-> <<>>,
     completed |-> <<>>,
     consumed |-> 0,
     st |-> ExtremumStart,
     result |-> [kind |-> "None"]]

EvInit ==
    /\ \E c \in CompositionalStates : \E k \in RelationKinds :
       \E r \in InputRelationItems(c) : \E f \in BOOLEAN :
       \E check \in BOOLEAN : \E chunksize \in 1..MaxChunk :
          ev = EvCall(PhiStructureInit(c, [kind |-> k, items |-> r], f).value,
                      check, chunksize)
    /\ gen = Idle /\ ncs = Idle /\ ext = Idle /\ con = Idle /\ run = Idle
       /\ cev = Idle /\ obj = Idle
    /\ bc = Idle /\ occ = Idle /\ both = Idle

\* the outcome of a call as the item kept in the call's state
Outcome(made) ==
    IF made.ok THEN made.value ELSE [kind |-> "error", error |-> made.error]

EvReturned(e, ps, made) ==
    [e EXCEPT !.phi_structure = ps,
              !.pc = IF made.ok THEN "returned" ELSE "raised",
              !.result = Outcome(made)]

\* the phi structure is realized and is trivially reducible: _null_sia
EvReturnNull ==
    /\ ev.pc = "call"
    /\ ev.check_trivial_reducibility
    /\ is_trivially_reducible(Subsystem, realize(ev.phi_structure))
    /\ ev' = EvReturned(ev, realize(ev.phi_structure),
                        null_sia(Subsystem, realize(ev.phi_structure)))
    /\ UNCHANGED <<gen, ncs, ext, con, run, obj, cev, bc, occ, both>>

EvSubmitted(e, ps, batches) ==
    [e EXCEPT !.phi_structure = ps,
              !.pc = "loop",
              !.tasks = [t \in DOMAIN batches |->
                           [cuts |-> batches[t], state |-> "running",
                            result |-> None]]]

\* the phi structure is realized and one task per batch of cuts is submitted
EvSubmit ==
    /\ ev.pc = "call"
    /\ ~(/\ ev.check_trivial_reducibility
         /\ is_trivially_reducible(Subsystem, realize(ev.phi_structure)))
    /\ ev' = EvSubmitted(ev, realize(ev.phi_structure),
                         CutBatches(Subsystem, ev.chunksize))
    /\ UNCHANGED <<gen, ncs, ext, con, run, obj, cev, bc, occ, both>>

\* a running batch task completes, in any order, with the one value that
\* _evaluate_cuts returns or the exception it raises
EvTaskFinish(t) ==
    /\ ev.pc # "idle"
    /\ t \in DOMAIN ev.tasks
    /\ ev.tasks[t].state = "running"
    /\ ev' = [ev EXCEPT !.tasks[t].state = "finished",
                        !.tasks[t].result =
                            Some(evaluate_cuts(Subsystem, ev.phi_structure,
                                               ev.tasks[t].cuts)),
                        !.completed = Append(@, t)]
    /\ UNCHANGED <<gen, ncs, ext, con, run, obj, cev, bc, occ, both>>

\* ray.cancel(task) for every task: a task still running is cancelled
CancelAll(tasks) ==
    [u \in DOMAIN tasks |->
       IF tasks[u].state = "running"
       THEN [tasks[u] EXCEPT !.state = "cancelled"] ELSE tasks[u]]

\* the top-level loop after the step st on an item that was got
EvStepped(e, st) ==
    [e EXCEPT !.consumed = @ + 1,
              !.st = st,
              !.pc = st.pc,
              !.result = st.result,
              !.tasks = IF st.calls > e.st.calls THEN CancelAll(@) ELSE @]

\* ray.get of a task that raised raises in the caller
EvRaised(e, got) ==
    [e EXCEPT !.consumed = @ + 1, !.pc = "raised", !.result = Outcome(got)]

EvConsumed(e, got) ==
    IF got.ok THEN EvStepped(e, extremum_step(e.st, got.value, "returns"))
    ELSE EvRaised(e, got)

\* the top-level extremum_with_short_circuit takes the next completed
\* result from as_completed(tasks); on the short circuit the callback
\* cancels the tasks still running
EvConsume ==
    /\ ev.pc = "loop"
    /\ ev.consumed < Len(ev.completed)
    /\ ev' = EvConsumed(ev, The(ev.tasks[ev.completed[ev.consumed + 1]].result))
    /\ UNCHANGED <<gen, ncs, ext, con, run, obj, cev, bc, occ, both>>

EvLoopEnded(e, st) ==
    [e EXCEPT !.st = st, !.pc = "returned", !.result = st.result]

\* every task's result has been taken: return extreme_item
EvReturn ==
    /\ ev.pc = "loop"
    /\ ev.consumed = Len(ev.tasks)
    /\ ev' = EvLoopEnded(ev, extremum_return(ev.st))
    /\ UNCHANGED <<gen, ncs, ext, con, run, obj, cev, bc, occ, both>>

EvNext ==
    \/ EvReturnNull
    \/ EvSubmit
    \/ \E t \in DOMAIN ev.tasks : EvTaskFinish(t)
    \/ EvConsume
    \/ EvReturn

SpecEvaluate == EvInit /\ [][EvNext]_vars

\* the least of a set of rationals
RatMin(S) ==
    CHOOSE a \in S : \A b \in S : ~RatLT(b, a)

\* evaluate_cut(...).phi over the cuts of a sequence
CutPhis(ps, cuts) ==
    {evaluate_cut(Subsystem, ps, cuts[i]).value.phi : i \in DOMAIN cuts}

\* the phi of the result is the minimum of evaluate_cut(...).phi over all cuts
\* of sia_partitions
ResultIsMinimumOverCuts ==
    RatEq(ev.result.phi,
          RatMin(CutPhis(ev.phi_structure, sia_partitions(Subsystem.node_indices))))

\* every finished batch task holds one system irreducibility analysis, whose
\* phi is the least of its batch
TasksReturnLocalExtremum ==
    \A t \in DOMAIN ev.tasks :
        ev.tasks[t].state = "finished" =>
            /\ The(ev.tasks[t].result).ok
            /\ The(ev.tasks[t].result).value.kind = "sia"
            /\ RatEq(The(ev.tasks[t].result).value.phi,
                     RatMin(CutPhis(ev.phi_structure, ev.tasks[t].cuts)))

\* the trivial-reducibility check fires: the call returns the null analysis
\* and submits no task
CheckFires ==
    /\ ev.check_trivial_reducibility
    /\ is_trivially_reducible(Subsystem, ev.phi_structure)

DEFAULT_CUT_CHUNKSIZE == 500

\* the cut search of evaluate_phi_structure with the batch results taken in
\* submission order
CutSearch(subsystem, ps, chunksize) ==
    evaluate_cuts_loop(ExtremumStart,
                       [t \in DOMAIN CutBatches(subsystem, chunksize) |->
                          evaluate_cuts(subsystem, ps,
                                        CutBatches(subsystem, chunksize)[t])])

EvaluateRealized(subsystem, ps, check, chunksize) ==
    IF check /\ is_trivially_reducible(subsystem, ps)
    THEN null_sia(subsystem, ps)
    ELSE CutSearch(subsystem, ps, chunksize)

\* evaluate_phi_structure(subsystem, phi_structure, check, chunksize) as one
\* call inside a task
evaluate_phi_structure(subsystem, ps, check, chunksize) ==
    EvaluateRealized(subsystem, realize(ps), check, chunksize)

\* A plausible slip: the comparison is turned round, the least item is kept.
Greater_least(best, item) ==
    IF best.kind = "None" \/ RatLT(item.phi, best.phi) THEN item ELSE best

\* max keeps the first of the greatest items: a later item replaces the one
\* held only when it is greater, in the order of the analyses by phi
Greater(best, item) ==
    IF best.kind = "None" \/ RatLT(best.phi, item.phi) THEN item ELSE best

\* _evaluate_phi_structures(subsystem, phi_structures, **kwargs): max over
\* the evaluations, made one after the other; the first exception ends it
RECURSIVE MaxLoop(_, _, _, _, _)
RECURSIVE MaxNext(_, _, _, _, _, _)
MaxLoop(subsystem, best, phi_structures, check, chunksize) ==
    IF phi_structures = <<>>
    THEN IF best.kind = "None" THEN Raise("ValueError") ELSE Ok(best)
    ELSE MaxNext(subsystem, best,
                 evaluate_phi_structure(subsystem, Head(phi_structures),
                                        check, chunksize),
                 Tail(phi_structures), check, chunksize)

MaxNext(subsystem, best, made, rest, check, chunksize) ==
    IF ~made.ok THEN made
    ELSE MaxLoop(subsystem, Greater(best, made.value), rest, check, chunksize)

evaluate_phi_structures(subsystem, phi_structures, check, chunksize) ==
    MaxLoop(subsystem, [kind |-> "None"], phi_structures, check, chunksize)

\* ray.put(all_relations)
RayPut(relations) ==
    [relations EXCEPT !.kind = "remote"]

\* the phi structures sia builds, one per compositional state, to be filtered
StatePhiStructures(all_distinctions, all_relations) ==
    [i \in DOMAIN all_nonconflicting_distinction_sets(all_distinctions) |->
       PhiStructureInit(all_nonconflicting_distinction_sets(all_distinctions)[i],
                        RayPut(all_relations), TRUE).value]

RunCall(all_distinctions, all_relations, check, chunksize) ==
    [pc |-> "call",
     all_distinctions |-> all_distinctions,
     all_relations |-> all_relations,
     check_trivial_reducibility |-> check,
     chunksize |-> chunksize,
     tasks |-> <<>>,
     completed |-> <<>>,
     consumed |-> 0,
     best |-> [kind |-> "None"],
     result |-> [kind |-> "None"]]

\* sia(subsystem, all_distinctions, all_relations) with the distinctions of
\* the subsystem, one per mechanism, and the default cut_chunksize
RunInit ==
    /\ \E c \in InputCES : \E r \in InputRelationItems(c) :
       \E check \in BOOLEAN : \E chunksize \in 1..MaxChunk :
          run = RunCall(c, [kind |-> "realized", items |-> r], check, chunksize)
    /\ gen = Idle /\ ncs = Idle /\ ext = Idle /\ con = Idle /\ ev = Idle
       /\ cev = Idle /\ obj = Idle
    /\ bc = Idle /\ occ = Idle /\ both = Idle

\* full_phi_structure = PhiStructure(all_distinctions, all_relations)
full_phi_structure(r) ==
    PhiStructureInit(r.all_distinctions, r.all_relations, FALSE).value

RunEnded(r, made) ==
    [r EXCEPT !.pc = IF made.ok THEN "returned" ELSE "raised",
              !.result = Outcome(made)]

\* the full phi structure is trivially reducible: _null_sia
RunReturnNull ==
    /\ run.pc = "call"
    /\ run.check_trivial_reducibility
    /\ is_trivially_reducible(Subsystem, full_phi_structure(run))
    /\ run' = RunEnded(run, null_sia(Subsystem, full_phi_structure(run)))
    /\ UNCHANGED <<gen, ncs, ext, con, ev, obj, cev, bc, occ, both>>

RunSubmitted(r, chunks) ==
    [r EXCEPT !.pc = "loop",
              !.tasks = [t \in DOMAIN chunks |->
                           [phi_structures |-> chunks[t], state |-> "running",
                            result |-> None]]]

\* one task per chunk of the phi structures of the compositional states
RunSubmit ==
    /\ run.pc = "call"
    /\ ~(/\ run.check_trivial_reducibility
         /\ is_trivially_reducible(Subsystem, full_phi_structure(run)))
    /\ run' = RunSubmitted(run, partition_all(run.chunksize,
                   StatePhiStructures(run.all_distinctions, run.all_relations)))
    /\ UNCHANGED <<gen, ncs, ext, con, ev, obj, cev, bc, occ, both>>

\* a running task completes, in any order, with the value that
\* _evaluate_phi_structures returns or the exception it raises
RunTaskFinish(t) ==
    /\ run.pc = "loop"
    /\ t \in DOMAIN run.tasks
    /\ run.tasks[t].state = "running"
    /\ run' = [run EXCEPT !.tasks[t].state = "finished",
                          !.tasks[t].result =
                              Some(evaluate_phi_structures(
                                       Subsystem, run.tasks[t].phi_structures,
                                       run.check_trivial_reducibility,
                                       DEFAULT_CUT_CHUNKSIZE)),
                          !.completed = Append(@, t)]
    /\ UNCHANGED <<gen, ncs, ext, con, ev, obj, cev, bc, occ, both>>

RunConsumed(r, got) ==
    IF got.ok
    THEN [r EXCEPT !.consumed = @ + 1, !.best = Greater(@, got.value)]
    ELSE [r EXCEPT !.consumed = @ + 1, !.pc = "raised", !.result = Outcome(got)]

\* max(results) takes the next completed result from as_completed(tasks)
RunConsume ==
    /\ run.pc = "loop"
    /\ run.consumed < Len(run.completed)
    /\ run' = RunConsumed(run, The(run.tasks[run.completed[run.consumed + 1]].result))
    /\ UNCHANGED <<gen, ncs, ext, con, ev, obj, cev, bc, occ, both>>

\* every result has been taken: max returns the greatest
RunReturn ==
    /\ run.pc = "loop"
    /\ run.consumed = Len(run.tasks)
    /\ run' = RunEnded(run, IF run.best.kind = "None" THEN Raise("ValueError")
                            ELSE Ok(run.best))
    /\ UNCHANGED <<gen, ncs, ext, con, ev, obj, cev, bc, occ, both>>

RunNext ==
    \/ RunReturnNull
    \/ RunSubmit
    \/ \E t \in DOMAIN run.tasks : RunTaskFinish(t)
    \/ RunConsume
    \/ RunReturn

SpecSia == RunInit /\ [][RunNext]_vars

\* the greatest of a set of rationals
RatMax(S) ==
    CHOOSE a \in S : \A b \in S : ~RatLT(a, b)

\* the phi a compositional state counts for: zero when it is trivially
\* reducible, else the minimum phi over all cuts
StatePhi(ps) ==
    IF is_trivially_reducible(Subsystem, ps) THEN Rat(0, 1)
    ELSE RatMin(CutPhis(realize(ps), sia_partitions(Subsystem.node_indices)))

\* the maximum over all compositional states of the phi each counts for
MaxOverStates(all_distinctions, all_relations) ==
    RatMax({StatePhi(StatePhiStructures(all_distinctions, all_relations)[i]) :
              i \in DOMAIN StatePhiStructures(all_distinctions, all_relations)})

\* sia has ended, by a return or by an exception
RunEnds ==
    run.pc \in {"returned", "raised"}

\* C1: under the exhaustive strategy, for every chunk size, sia returns an
\* analysis whose phi is the maximum over all compositional states of the
\* minimum phi over all cuts of the state, a trivially reducible state
\* counting as zero. Stated for the calls that favour it most: the
\* trivial-reducibility check is on, as by default, and there is at least
\* one distinction.
C1_MaxOfMins ==
    (/\ RunEnds
     /\ run.check_trivial_reducibility
     /\ run.all_distinctions.items # <<>>) =>
        /\ run.pc = "returned"
        /\ RatEq(run.result.phi,
                 MaxOverStates(run.all_distinctions, run.all_relations))

\* C4: with check_trivial_reducibility set, for every distinction set that
\* leaves a node out of the cause purviews or out of the effect purviews,
\* sia returns a null analysis (phi zero, selectivity and informativeness
\* not computed) and submits no task.
C4_NullSia ==
    (/\ RunEnds
     /\ run.check_trivial_reducibility
     /\ has_nonspecified_elements(Subsystem, run.all_distinctions)) =>
        /\ run.pc = "returned"
        /\ IsZero(run.result.phi)
        /\ run.result.selectivity = None
        /\ run.result.informativeness = None
        /\ run.tasks = <<>>

(***************************************************************************)
(* One call of evaluate_cut, with any cut, on a fresh PhiStructure.        *)
(***************************************************************************)
\* every cut: those of sia_partitions and the CompleteCut
AllCuts ==
    Range(sia_partitions(Subsystem.node_indices)) \cup {CompleteCut}

\* the relation among all the MICE of a cause-effect structure
SupportedRelation(ces) ==
    [relata |-> Range(FlatCauseEffectStructure(ces).items), phi |-> 1]

\* a relation of the system one of whose relata is not in the structure: the
\* cause MICE of a distinction the structure does not have
ForeignRelation(ces) ==
    [relata |-> {Mice(CHOOSE d \in Distinctions : d \notin Range(ces.items),
                      CAUSE)},
     phi |-> 1]

\* The relation collections a phi structure is built with: relations its
\* structure supports, relations of the system it does not, both, or none.
StateRelationItems(ces) ==
    {<<>>, <<ForeignRelation(ces)>>}
      \cup (IF ces.items = <<>> THEN {}
            ELSE {<<SupportedRelation(ces)>>,
                  <<SupportedRelation(ces), ForeignRelation(ces)>>})

\* PhiStructure.system_intrinsic_information(), taking a value already held
system_intrinsic_information(ps) ==
    IF ps.system_intrinsic_information # None
    THEN Ok(The(ps.system_intrinsic_information))
    ELSE IF ~partition(ps, CompleteCut).ok THEN partition(ps, CompleteCut)
    ELSE Ok(phi(partition(ps, CompleteCut).value))

CevCall(ps, cut) ==
    [pc |-> "call", phi_structure |-> ps, cut |-> cut,
     partitioned |-> None, result |-> [kind |-> "None"]]

CevInit ==
    /\ \E c \in CompositionalStates : \E k \in RelationKinds :
       \E r \in StateRelationItems(c) : \E f \in BOOLEAN : \E cut \in AllCuts :
          cev = CevCall(PhiStructureInit(c, [kind |-> k, items |-> r], f).value,
                        cut)
    /\ gen = Idle /\ ncs = Idle /\ ext = Idle /\ con = Idle /\ ev = Idle
    /\ run = Idle /\ obj = Idle
    /\ bc = Idle /\ occ = Idle /\ both = Idle

\* the call has ended: the given phi structure is as partition left it, the
\* partitioned phi structure is the one the call built
CevEnded(c, made, result) ==
    [c EXCEPT !.pc = IF result.ok THEN "returned" ELSE "raised",
              !.phi_structure = realize(@),
              !.partitioned = IF made.ok THEN Some(made.value) ELSE None,
              !.result = Outcome(result)]

\* evaluate_cut(subsystem, phi_structure, cut)
CevEvaluate ==
    /\ cev.pc = "call"
    /\ cev' = CevEnded(cev, partition(cev.phi_structure, cev.cut),
                       evaluate_cut(Subsystem, cev.phi_structure, cev.cut))
    /\ UNCHANGED <<gen, ncs, ext, con, ev, run, obj, bc, occ, both>>

CevNext ==
    CevEvaluate

SpecEvaluateCut == CevInit /\ [][CevNext]_vars

\* C11: for a PhiStructure with a non-empty CES, evaluate_cut with a
\* CompleteCut gives partitioned distinction and relation phi sums of zero,
\* informativeness equal to the sum of distinction phi plus the sum of
\* relation phi, and phi equal to selectivity times that sum, which is
\* system_intrinsic_information().
C11_CompleteCut ==
    (cev.pc = "returned" /\ cev.cut.kind = "complete") =>
        /\ sum_phi_partitioned_distinctions(The(cev.partitioned)) = 0
        /\ sum_phi_partitioned_relations(The(cev.partitioned)) = 0
        /\ cev.result.informativeness =
             Some(SumPhi(cev.phi_structure.distinctions.items)
                    + SumPhi(cev.phi_structure.relations.items))
        /\ RatEq(cev.result.phi,
                 Times(The(cev.result.selectivity),
                       SumPhi(cev.phi_structure.distinctions.items)
                         + SumPhi(cev.phi_structure.relations.items)))
        /\ system_intrinsic_information(cev.phi_structure).ok
        /\ RatEq(cev.result.phi,
                 system_intrinsic_information(cev.phi_structure).value)

\* evaluate_cut with a CompleteCut has returned for a structure of two
\* distinctions with a relation it supports
C11_Witness ==
    /\ cev.pc = "returned"
    /\ cev.cut.kind = "complete"
    /\ Len(cev.phi_structure.distinctions.items) = 2
    /\ Len(cev.phi_structure.relations.items) = 1
    /\ cev.result.informativeness # Some(0)
    /\ ~IsZero(cev.result.phi)

\* C12: for every cut, ordinary or complete, both terms of informativeness
\* are non-negative: the partitioned distinctions are among the distinctions
\* and the partitioned relations are among the relations.
C12_TermsNonNegative ==
    cev.pc = "returned" =>
        /\ distinction_term(The(cev.partitioned)) >= 0
        /\ relation_term(The(cev.partitioned)) >= 0
        /\ Range(partitioned_distinctions(The(cev.partitioned)).items)
             \subseteq Range(cev.phi_structure.distinctions.items)
        /\ Range(partitioned_relations(The(cev.partitioned)).items)
             \subseteq Range(cev.phi_structure.relations.items)
        /\ cev.result.informativeness =
             Some(distinction_term(The(cev.partitioned))
                    + relation_term(The(cev.partitioned)))

\* an ordinary cut has destroyed one distinction of two and the relation
\* between them, and left the other distinction
C12_Witness ==
    /\ cev.pc = "returned"
    /\ cev.cut.kind = "cut"
    /\ Len(cev.phi_structure.distinctions.items) = 2
    /\ Len(partitioned_distinctions(The(cev.partitioned)).items) = 1
    /\ distinction_term(The(cev.partitioned)) > 0
    /\ relation_term(The(cev.partitioned)) > 0

\* a distinction that the cut, taken in its direction, leaves whole
Spared(distinction, cut) ==
    ~(/\ cut.from_nodes \cap distinction.mechanism # {}
      /\ cut.to_nodes \cap (IF cut.direction = CAUSE THEN distinction.cause
                             ELSE distinction.effect) # {})

\* C18: under an ordinary cut with direction d the partitioned distinctions
\* are exactly the distinctions of the CES, in their order, for which not
\* (the cut's from_nodes meet the mechanism and its to_nodes meet the purview
\* in direction d); under a CompleteCut, which has no from_nodes and no
\* to_nodes to intersect, there are none.
C18_PartitionedDistinctions ==
    cev.pc = "returned" =>
        IF cev.cut.kind = "complete"
        THEN /\ DOMAIN cev.cut = {"kind"}
             /\ partitioned_distinctions(The(cev.partitioned)).items = <<>>
        ELSE /\ \A d \in Range(cev.phi_structure.distinctions.items) :
                   d \in Range(partitioned_distinctions(
                                   The(cev.partitioned)).items)
                      <=> Spared(d, cev.cut)
             /\ Range(partitioned_distinctions(The(cev.partitioned)).items)
                   \subseteq Range(cev.phi_structure.distinctions.items)
             /\ \A i, j \in DOMAIN cev.phi_structure.distinctions.items :
                   LET items == cev.phi_structure.distinctions.items
                       kept == partitioned_distinctions(
                                   The(cev.partitioned)).items
                   IN (i < j /\ Spared(items[i], cev.cut)
                             /\ Spared(items[j], cev.cut)) =>
                         \E k, l \in DOMAIN kept :
                            k < l /\ kept[k] = items[i] /\ kept[l] = items[j]

\* a cut in the cause direction has destroyed one distinction of two and
\* left a distinction that the same cut in the effect direction destroys
C18_Witness ==
    /\ cev.pc = "returned"
    /\ cev.cut.kind = "cut"
    /\ cev.cut.direction = CAUSE
    /\ Len(cev.phi_structure.distinctions.items) = 2
    /\ Len(partitioned_distinctions(The(cev.partitioned)).items) = 1
    /\ \E d \in Range(partitioned_distinctions(The(cev.partitioned)).items) :
          /\ cev.cut.from_nodes \cap d.mechanism # {}
          /\ cev.cut.to_nodes \cap d.cause = {}
          /\ cev.cut.to_nodes \cap d.effect # {}

(***************************************************************************)
(* One PhiStructure instance and the operations called on it, one after    *)
(* the other.  An instance is its attributes (ps) with the counts of what  *)
(* was done for it: fetches of the remote handle, runs of the filter by    *)
(* the _requires_relations wrapper, and computations of each scalar, on    *)
(* the instance or on a PartitionedPhiStructure made from it.              *)
(***************************************************************************)
Inc(n) ==
    IF n < MaxCount THEN n + 1 ELSE n

Instance(ps) ==
    [ps |-> ps, wraps |-> 0, fetches |-> 0, filters |-> 0,
     sums_d |-> 0, sums_r |-> 0, sels |-> 0]

\* what a call leaves: the instance after it, and its value or exception
Left(inst, result) ==
    [inst |-> inst, result |-> result]

\* the _requires_relations wrapper, before the wrapped method runs
Wrapped(I) ==
    [I EXCEPT !.ps = requires_relations(@),
              !.wraps = Inc(@),
              !.fetches = IF I.ps.relations.kind = "remote" THEN Inc(@) ELSE @,
              !.filters = IF I.ps.requires_filter THEN Inc(@) ELSE @]

\* sum_phi_distinctions(): computed and kept unless already held
DoSumD(I) ==
    IF I.ps.sum_phi_distinctions # None THEN I
    ELSE [I EXCEPT !.ps.sum_phi_distinctions = Some(SumPhi(I.ps.distinctions.items)),
                   !.sums_d = Inc(@)]

\* sum_phi_relations(), after the wrapper: computed and kept unless held
SumRAfterWrapper(I) ==
    IF I.ps.sum_phi_relations # None THEN I
    ELSE [I EXCEPT !.ps.sum_phi_relations = Some(SumPhi(I.ps.relations.items)),
                   !.sums_r = Inc(@)]

DoSumR(I) ==
    SumRAfterWrapper(Wrapped(I))

\* selectivity(): both sums are taken before _substrate_size is read
SelAfterSums(I) ==
    IF I.ps.substrate_size = None THEN Left(I, Raise("AttributeError"))
    ELSE Left([I EXCEPT !.ps.selectivity = Some(selectivity(I.ps)),
                        !.sels = Inc(@)],
              Ok(selectivity(I.ps)))

DoSelectivity(I) ==
    IF I.ps.selectivity # None THEN Left(I, Ok(The(I.ps.selectivity)))
    ELSE SelAfterSums(DoSumR(DoSumD(I)))

\* filter_relations() called directly; a remote handle cannot be iterated
DoFilterRelations(I) ==
    IF I.ps.relations.kind = "remote" /\ I.ps.distinctions.items # <<>>
    THEN Left(I, Raise("TypeError"))
    ELSE Left([I EXCEPT !.ps = filter_relations(@)], Ok("None"))

\* the counts of I with the attributes of J
WithCountsOf(J, I) ==
    [I EXCEPT !.ps = J.ps]

\* selectivity(), informativeness() and phi() of a PartitionedPhiStructure
\* just made: the scalars it did not get from its parent are computed on it
PartitionedScalars(K) ==
    DoSumR(DoSumD(DoSelectivity(K).inst))

\* after partition (made) of the realized instance W: the value is that of
\* the methods of the partitioned structure, the counts are theirs too
AfterPartition(W, made, value) ==
    IF ~made.ok THEN Left(W, made)
    ELSE Left(WithCountsOf(W, PartitionedScalars([W EXCEPT !.ps = made.value])),
              value)

\* evaluate_cut(subsystem, phi_structure, cut) on the instance
DoEvaluateCut(I, cut) ==
    AfterPartition(Wrapped(I), partition(I.ps, cut),
                   evaluate_cut(Subsystem, I.ps, cut))

\* system_intrinsic_information(): partition(CompleteCut()).phi(), kept
KeepSII(L) ==
    IF ~L.result.ok THEN L
    ELSE Left([L.inst EXCEPT !.ps.system_intrinsic_information =
                                 Some(L.result.value)],
              L.result)

DoSystemIntrinsicInformation(I) ==
    IF I.ps.system_intrinsic_information # None
    THEN Left(I, Ok(The(I.ps.system_intrinsic_information)))
    ELSE KeepSII(AfterPartition(Wrapped(I), partition(I.ps, CompleteCut),
                                system_intrinsic_information(I.ps)))

\* The structures of the instances: the operations on an instance depend on
\* its structure through its sums and the relations it supports only, so the
\* structures of no distinction, or of one mechanism that specifies itself as
\* its cause and its effect, stand for the others.
InstanceStates ==
    {c \in CompositionalStates :
        /\ Len(c.items) <= 1
        /\ \A i \in DOMAIN c.items : /\ c.items[i].cause = c.items[i].mechanism
                                     /\ c.items[i].effect = c.items[i].mechanism}

\* The cuts applied to an instance: its purviews are the same in both
\* directions, so the cuts in the cause direction stand for the others.
InstanceCuts ==
    {cut \in AllCuts : cut.kind = "cut" => cut.direction = CAUSE}

Operations ==
    {"sum_phi_distinctions", "sum_phi_relations", "selectivity", "realize",
     "filter_relations", "system_intrinsic_information", "partition",
     "evaluate_cut"}

ObjInit ==
    /\ \E c \in InstanceStates : \E k \in RelationKinds :
       \E r \in StateRelationItems(c) : \E f \in BOOLEAN :
          obj = [pc |-> "ready",
                 inst |-> Instance(PhiStructureInit(
                              c, [kind |-> k, items |-> r], f).value),
                 prev |-> None,
                 last |-> "none",
                 cut |-> NullCut,
                 repeat |-> FALSE,
                 result |-> Ok("None")]
    /\ gen = Idle /\ ncs = Idle /\ ext = Idle /\ con = Idle /\ ev = Idle
    /\ run = Idle /\ cev = Idle
    /\ bc = Idle /\ occ = Idle /\ both = Idle

\* the operation op (with the cut, if it takes one) was called and left L
ObjCalled(o, op, cut, L) ==
    [o EXCEPT !.inst = L.inst,
              !.prev = Some(o.inst.ps),
              !.last = op,
              !.cut = cut,
              !.repeat = (o.last = op),
              !.result = L.result]

ObjSumPhiDistinctions ==
    /\ obj.pc = "ready"
    /\ obj' = ObjCalled(obj, "sum_phi_distinctions", NullCut,
                        Left(DoSumD(obj.inst), Ok(sum_phi_distinctions(obj.inst.ps))))
    /\ UNCHANGED <<gen, ncs, ext, con, ev, run, cev, bc, occ, both>>

ObjSumPhiRelations ==
    /\ obj.pc = "ready"
    /\ obj' = ObjCalled(obj, "sum_phi_relations", NullCut,
                        Left(DoSumR(obj.inst), Ok(sum_phi_relations(obj.inst.ps))))
    /\ UNCHANGED <<gen, ncs, ext, con, ev, run, cev, bc, occ, both>>

ObjSelectivity ==
    /\ obj.pc = "ready"
    /\ obj' = ObjCalled(obj, "selectivity", NullCut, DoSelectivity(obj.inst))
    /\ UNCHANGED <<gen, ncs, ext, con, ev, run, cev, bc, occ, both>>

ObjRealize ==
    /\ obj.pc = "ready"
    /\ obj' = ObjCalled(obj, "realize", NullCut,
                        Left(Wrapped(obj.inst), Ok("self")))
    /\ UNCHANGED <<gen, ncs, ext, con, ev, run, cev, bc, occ, both>>

ObjFilterRelations ==
    /\ obj.pc = "ready"
    /\ obj' = ObjCalled(obj, "filter_relations", NullCut,
                        DoFilterRelations(obj.inst))
    /\ UNCHANGED <<gen, ncs, ext, con, ev, run, cev, bc, occ, both>>

ObjSystemIntrinsicInformation ==
    /\ obj.pc = "ready"
    /\ obj' = ObjCalled(obj, "system_intrinsic_information", NullCut,
                        DoSystemIntrinsicInformation(obj.inst))
    /\ UNCHANGED <<gen, ncs, ext, con, ev, run, cev, bc, occ, both>>

ObjPartition(cut) ==
    /\ obj.pc = "ready"
    /\ obj' = ObjCalled(obj, "partition", cut,
                        Left(Wrapped(obj.inst), partition(obj.inst.ps, cut)))
    /\ UNCHANGED <<gen, ncs, ext, con, ev, run, cev, bc, occ, both>>

ObjEvaluateCut(cut) ==
    /\ obj.pc = "ready"
    /\ obj' = ObjCalled(obj, "evaluate_cut", cut, DoEvaluateCut(obj.inst, cut))
    /\ UNCHANGED <<gen, ncs, ext, con, ev, run, cev, bc, occ, both>>

ObjNext ==
    \/ ObjSumPhiDistinctions
    \/ ObjSumPhiRelations
    \/ ObjSelectivity
    \/ ObjRealize
    \/ ObjFilterRelations
    \/ ObjSystemIntrinsicInformation
    \/ \E cut \in InstanceCuts : ObjPartition(cut)
    \/ \E cut \in InstanceCuts : ObjEvaluateCut(cut)

SpecInstance == ObjInit /\ [][ObjNext]_vars

\* every relation the instance holds has all its relata in its structure
SupportedOnly(ps) ==
    \A i \in DOMAIN ps.relations.items :
        /\ ps.distinctions.items # <<>>
        /\ ps.relations.items[i].relata
             \subseteq Range(FlatCauseEffectStructure(ps.distinctions).items)

\* the relations are a realized collection, the flag is down, and the handle
\* was fetched and the filter was run by the wrapper at most once each
RealizedOnce(I) ==
    /\ I.ps.relations.kind = "realized"
    /\ ~I.ps.requires_filter
    /\ I.fetches <= 1
    /\ I.filters <= 1

C14_FilterIdempotent ==
    (obj.last = "filter_relations" /\ obj.repeat) =>
        obj.inst.ps.relations = The(obj.prev).relations

\* filter_relations() has returned twice in a row on an instance that had
\* summed two relations before and now holds the one its structure supports
C14_Witness ==
    /\ obj.last = "filter_relations"
    /\ obj.repeat
    /\ obj.result.ok
    /\ obj.inst.ps.sum_phi_relations = Some(2)
    /\ Len(obj.inst.ps.relations.items) = 1
    /\ SupportedOnly(obj.inst.ps)

\* C15: evaluate_cut leaves the phi structure it is given as it was: the
\* representation of its relations, its requires_filter flag and the scalars
\* it holds are the same after the call as before.  Stated for the calls
\* that return.
C15_Unchanged ==
    (obj.last = "evaluate_cut" /\ obj.result.ok) =>
        obj.inst.ps = The(obj.prev)


\* C20: over a sequence of evaluate_cut calls against one PhiStructure, the
\* sum of distinction phi, the sum of relation phi and the selectivity are
\* each computed at most once, on the structure or on the partitioned
\* structures made from it.
C20_ComputedOnce ==
    (obj.last = "evaluate_cut" /\ obj.repeat /\ obj.result.ok) =>
        /\ obj.inst.sums_d <= 1
        /\ obj.inst.sums_r <= 1
        /\ obj.inst.sels <= 1

\* ---------------------------------------------------------------------------
\* One search of sia, seen from the object store: what the search puts in
\* the store with ray.put, and in what form every task it submits receives
\* the subsystem and the relations.  An argument given to .remote as an
\* ObjectRef is a reference to the stored object; an argument given as a
\* Python object is serialized with the task.  The results of the tasks are
\* the matter of SpecSia and SpecEvaluate.

\* config.IIT_VERSION: "maximal-state-first", or any other version
Strategies == {"maximal-state-first", "exhaustive"}

\* the phi structures a caller passes as phi_structures: built beforehand,
\* with realized relations that need no filter
GivenPhiStructures(all_distinctions, all_relations) ==
    [i \in DOMAIN all_nonconflicting_distinction_sets(all_distinctions) |->
       PhiStructureInit(all_nonconflicting_distinction_sets(all_distinctions)[i],
                        all_relations, FALSE).value]

BcCall(strategy, given, all_distinctions, all_relations, check, chunksize,
       cut_chunksize) ==
    [pc |-> "call",
     strategy |-> strategy,
     given |-> given,
     all_distinctions |-> all_distinctions,
     all_relations |-> all_relations,
     check_trivial_reducibility |-> check,
     chunksize |-> chunksize,
     cut_chunksize |-> cut_chunksize,
     store |-> <<>>,
     subsystem |-> "object",
     phi_structures |-> <<>>,
     pending |-> {},
     submitted |-> <<>>]

\* the distinctions of the subsystem, one per mechanism, in a fixed order
OrderedCES ==
    {c \in InputCES : c.items = SetToSeq(Range(c.items))}

BcInit ==
    /\ \E strategy \in Strategies : \E given \in BOOLEAN :
       \E c \in OrderedCES : \E r \in InputRelationItems(c) :
       \E check \in BOOLEAN : \E chunksize \in 1..MaxChunk :
       \E cut_chunksize \in 1..MaxChunk :
          bc = BcCall(strategy, given, c, [kind |-> "realized", items |-> r],
                      check, chunksize, cut_chunksize)
    /\ gen = Idle /\ ncs = Idle /\ ext = Idle /\ con = Idle /\ ev = Idle
    /\ run = Idle /\ cev = Idle /\ obj = Idle /\ occ = Idle /\ both = Idle

BcFull(b) ==
    PhiStructureInit(b.all_distinctions, b.all_relations, FALSE).value

\* the full phi structure is trivially reducible: nothing is put or submitted
BcReturnNull ==
    /\ bc.pc = "call"
    /\ bc.check_trivial_reducibility
    /\ is_trivially_reducible(Subsystem, BcFull(bc))
    /\ bc' = [bc EXCEPT !.pc = "returned"]
    /\ UNCHANGED <<gen, ncs, ext, con, ev, run, cev, obj, occ, both>>

\* phi_structures is None: the relations are put in the store and every
\* phi structure holds the reference; otherwise the caller's are used
BcPrepared(b) ==
    IF b.given
    THEN [b EXCEPT !.pc = "prepared",
                   !.phi_structures =
                       GivenPhiStructures(b.all_distinctions, b.all_relations)]
    ELSE [b EXCEPT !.pc = "prepared",
                   !.store = Append(@, "relations"),
                   !.phi_structures =
                       StatePhiStructures(b.all_distinctions, b.all_relations)]

BcPrepare ==
    /\ bc.pc = "call"
    /\ ~(/\ bc.check_trivial_reducibility
         /\ is_trivially_reducible(Subsystem, BcFull(bc)))
    /\ bc' = BcPrepared(bc)
    /\ UNCHANGED <<gen, ncs, ext, con, ev, run, cev, obj, occ, both>>

\* the form in which the relations of the phi structures of a unit travel
RelationForms(phi_structures) ==
    [i \in DOMAIN phi_structures |-> phi_structures[i].relations.kind]

\* one unit of work, as submitted with .remote
Unit(name, subsystem, phi_structures) ==
    [unit |-> name, subsystem |-> subsystem,
     relations |-> RelationForms(phi_structures)]

UnitsOf(name, subsystem, chunks) ==
    [t \in DOMAIN chunks |-> Unit(name, subsystem, chunks[t])]

\* the cut batches evaluate_phi_structure submits for a realized phi
\* structure: the subsystem and the phi structure are passed as they are
CutUnits(subsystem, ps, check, chunksize) ==
    IF check /\ is_trivially_reducible(Subsystem, ps)
    THEN <<>>
    ELSE UnitsOf("cuts", subsystem,
                 [t \in DOMAIN CutBatches(Subsystem, chunksize) |-> <<ps>>])

\* subsystem = ray.put(subsystem)
BcPutSubsystem ==
    /\ bc.pc = "prepared"
    /\ bc.strategy # "maximal-state-first"
    /\ bc' = [bc EXCEPT !.pc = "put",
                        !.store = Append(@, "subsystem"),
                        !.subsystem = "ref"]
    /\ UNCHANGED <<gen, ncs, ext, con, ev, run, cev, obj, occ, both>>

\* one _evaluate_phi_structures task per chunk of phi structures
BcSubmitStates ==
    /\ bc.pc = "put"
    /\ bc' = [bc EXCEPT !.pc = "workers",
                        !.submitted =
                            @ \o UnitsOf("states", bc.subsystem,
                                         partition_all(bc.chunksize,
                                                       bc.phi_structures)),
                        !.pending = DOMAIN bc.phi_structures]
    /\ UNCHANGED <<gen, ncs, ext, con, ev, run, cev, obj, occ, both>>

\* in a worker, evaluate_phi_structure(subsystem, phi_structure) with the
\* subsystem the worker was handed: the phi structure is realized and its
\* cut batches are submitted
BcWorkerEvaluate(i) ==
    /\ bc.pc = "workers"
    /\ i \in bc.pending
    /\ bc' = [bc EXCEPT !.pending = @ \ {i},
                        !.phi_structures[i] = realize(@),
                        !.submitted =
                            @ \o CutUnits("object",
                                          realize(bc.phi_structures[i]),
                                          bc.check_trivial_reducibility,
                                          bc.cut_chunksize)]
    /\ UNCHANGED <<gen, ncs, ext, con, ev, run, cev, obj, occ, both>>

\* every task has ended: max(results)
BcReturn ==
    /\ bc.pc = "workers"
    /\ bc.pending = {}
    /\ bc' = [bc EXCEPT !.pc = "returned"]
    /\ UNCHANGED <<gen, ncs, ext, con, ev, run, cev, obj, occ, both>>

\* find_maximal_compositional_state: one task per chunk of phi structures
BcFindMaximal ==
    /\ bc.pc = "prepared"
    /\ bc.strategy = "maximal-state-first"
    /\ bc' = [bc EXCEPT !.pc = "maximal",
                        !.submitted =
                            @ \o UnitsOf("maximal", "none",
                                         partition_all(bc.chunksize,
                                                       bc.phi_structures))]
    /\ UNCHANGED <<gen, ncs, ext, con, ev, run, cev, obj, occ, both>>

\* the value max compares, for the phi structure at position i
SIIAt(phi_structures, i) ==
    system_intrinsic_information(phi_structures[i])

\* the positions of the chunk that holds position i
ChunkOf(i, chunksize, n) ==
    {j \in 1..n : (j - 1) \div chunksize = (i - 1) \div chunksize}

\* max keeps the first of the greatest items of the chunk
ChunkWinner(phi_structures, i, chunksize) ==
    \A j \in ChunkOf(i, chunksize, Len(phi_structures)) :
        /\ ~RatLT(SIIAt(phi_structures, i).value, SIIAt(phi_structures, j).value)
        /\ (j < i => RatLT(SIIAt(phi_structures, j).value,
                           SIIAt(phi_structures, i).value))

\* max over the winners as they complete: one of the greatest winners
MaximalStates(phi_structures, chunksize) ==
    {i \in DOMAIN phi_structures :
        /\ ChunkWinner(phi_structures, i, chunksize)
        /\ \A j \in DOMAIN phi_structures :
              ChunkWinner(phi_structures, j, chunksize) =>
                  ~RatLT(SIIAt(phi_structures, i).value,
                         SIIAt(phi_structures, j).value)}

\* max of no phi structure, or a system intrinsic information that cannot
\* be computed: the search ends with the exception
BcMaximalRaises ==
    /\ bc.pc = "maximal"
    /\ \/ bc.phi_structures = <<>>
       \/ \E i \in DOMAIN bc.phi_structures : ~SIIAt(bc.phi_structures, i).ok
    /\ bc' = [bc EXCEPT !.pc = "raised"]
    /\ UNCHANGED <<gen, ncs, ext, con, ev, run, cev, obj, occ, both>>

\* evaluate_phi_structure(subsystem, maximal_compositional_state) in the
\* caller's process: the state is realized and its cut batches are submitted
BcEvaluateMaximal(i) ==
    /\ bc.pc = "maximal"
    /\ \A j \in DOMAIN bc.phi_structures : SIIAt(bc.phi_structures, j).ok
    /\ i \in MaximalStates(bc.phi_structures, bc.chunksize)
    /\ bc' = [bc EXCEPT !.pc = "returned",
                        !.phi_structures[i] = realize(@),
                        !.submitted =
                            @ \o CutUnits(bc.subsystem,
                                          realize(bc.phi_structures[i]),
                                          bc.check_trivial_reducibility,
                                          bc.cut_chunksize)]
    /\ UNCHANGED <<gen, ncs, ext, con, ev, run, cev, obj, occ, both>>

BcNext ==
    \/ BcReturnNull
    \/ BcPrepare
    \/ BcPutSubsystem
    \/ BcSubmitStates
    \/ \E i \in DOMAIN bc.phi_structures : BcWorkerEvaluate(i)
    \/ BcReturn
    \/ BcFindMaximal
    \/ BcMaximalRaises
    \/ \E i \in DOMAIN bc.phi_structures : BcEvaluateMaximal(i)

SpecBroadcast == BcInit /\ [][BcNext]_vars

\* how many times an object was put in the store
Puts(store, name) ==
    Cardinality({k \in DOMAIN store : store[k] = name})

\* a unit receives the subsystem and the relations by reference
ByReference(u) ==
    /\ u.subsystem \in {"ref", "none"}
    /\ \A k \in DOMAIN u.relations : u.relations[k] = "remote"

\* C16: in a search of sia that builds its own phi structures, under either
\* strategy, the relations and the subsystem are each put in the store
\* exactly once, and every unit of work submitted receives them by
\* reference to the stored object.
C16_BroadcastOnce ==
    (bc.pc = "returned" /\ ~bc.given /\ bc.submitted # <<>>) =>
        /\ Puts(bc.store, "relations") = 1
        /\ Puts(bc.store, "subsystem") = 1
        /\ \A t \in DOMAIN bc.submitted : ByReference(bc.submitted[t])

\* ---------------------------------------------------------------------------
\* The memoized normalization constants: each function decorated with
\* @cache(cache={}, maxmem=None) keeps, for the life of the process, the
\* value it computed for each argument.

\* the largest substrate size the constants are asked for
MaxSubstrate == 3

SubstrateSizes == 1..MaxSubstrate

\* the call a memoized function makes with argument n, given its cache
Memoized(cache, n, fresh) ==
    IF cache[n] # None THEN The(cache[n]) ELSE fresh

Remembered(cache, n, fresh) ==
    [cache EXCEPT ![n] = Some(Memoized(cache, n, fresh))]

OccInit ==
    /\ occ = [one_direction |-> [n \in SubstrateSizes |-> None],
              relations |-> [n \in SubstrateSizes |-> None],
              optimum |-> [n \in SubstrateSizes |-> None],
              called |-> "none", n |-> 0, hit |-> FALSE, result |-> None]
    /\ gen = Idle /\ ncs = Idle /\ ext = Idle /\ con = Idle /\ ev = Idle
    /\ run = Idle /\ cev = Idle /\ obj = Idle /\ bc = Idle /\ both = Idle

\* optimum_sum_small_phi_distinctions_one_direction(n)
OccOneDirection(n) ==
    /\ occ' = [occ EXCEPT
                 !.one_direction =
                     Remembered(@, n,
                         optimum_sum_small_phi_distinctions_one_direction(n)),
                 !.called = "one_direction",
                 !.n = n,
                 !.hit = (occ.one_direction[n] # None),
                 !.result =
                     Some(Memoized(occ.one_direction, n,
                         optimum_sum_small_phi_distinctions_one_direction(n)))]
    /\ UNCHANGED <<gen, ncs, ext, con, ev, run, cev, obj, bc, both>>

\* optimum_sum_small_phi_relations(n)
OccRelations(n) ==
    /\ occ' = [occ EXCEPT
                 !.relations =
                     Remembered(@, n, optimum_sum_small_phi_relations(n)),
                 !.called = "relations",
                 !.n = n,
                 !.hit = (occ.relations[n] # None),
                 !.result =
                     Some(Rat(Memoized(occ.relations, n,
                                       optimum_sum_small_phi_relations(n)), 1))]
    /\ UNCHANGED <<gen, ncs, ext, con, ev, run, cev, obj, bc, both>>

\* distinction_term + relation_term, from what the two calls return
OptimumFrom(one, relations) ==
    Rat(2 * one.num + relations * one.den, one.den)

\* optimum_sum_small_phi(n): on a miss it calls the two memoized functions
\* above, which fill their own caches
OccMissed(o, n) ==
    [o EXCEPT
       !.one_direction =
           Remembered(@, n, optimum_sum_small_phi_distinctions_one_direction(n)),
       !.relations = Remembered(@, n, optimum_sum_small_phi_relations(n)),
       !.optimum =
           Remembered(@, n,
               OptimumFrom(
                   Memoized(o.one_direction, n,
                       optimum_sum_small_phi_distinctions_one_direction(n)),
                   Memoized(o.relations, n,
                       optimum_sum_small_phi_relations(n))))]

OccOptimum(n) ==
    /\ occ' = [(IF occ.optimum[n] # None THEN occ ELSE OccMissed(occ, n))
                 EXCEPT !.called = "optimum",
                        !.n = n,
                        !.hit = (occ.optimum[n] # None),
                        !.result =
                            IF occ.optimum[n] # None THEN occ.optimum[n]
                            ELSE OccMissed(occ, n).optimum[n]]
    /\ UNCHANGED <<gen, ncs, ext, con, ev, run, cev, obj, bc, both>>

OccNext ==
    \/ \E n \in SubstrateSizes : OccOneDirection(n)
    \/ \E n \in SubstrateSizes : OccRelations(n)
    \/ \E n \in SubstrateSizes : OccOptimum(n)

SpecOptimum == OccInit /\ [][OccNext]_vars

\* the sum over k = 1..n of k * C(n, k)
SumKChoose(n) ==
    SumSeq([k \in 1..n |-> k * comb(n, k)])

\* C19: for every n >= 1 the value of
\* optimum_sum_small_phi_distinctions_one_direction(n) is the sum over
\* k = 1..n of k * C(n, k), and a value returned from the cache is the value
\* a fresh computation gives.
C19_OneDirection ==
    occ.called = "one_direction" =>
        /\ RatEq(The(occ.result), Rat(SumKChoose(occ.n), 1))
        /\ occ.result =
             Some(optimum_sum_small_phi_distinctions_one_direction(occ.n))

\* the PhiStructure sia builds from a compositional state, and its partition
StatePartition(distinctions, cut) ==
    partition(PhiStructureInit(distinctions, RayPut(Relations(<<>>)),
                               TRUE).value, cut)

\* C21: for a non-empty input CES every compositional state the generator
\* yields holds at least one distinction, and the PhiStructure sia builds
\* from it can be partitioned.
C21_StatesNonEmpty ==
    (/\ ncs.pc # "idle"
     /\ ncs.distinctions.kind = "ces"
     /\ ncs.distinctions.items # <<>>) =>
        \A k \in DOMAIN ncs.yielded :
            /\ ncs.yielded[k].items # <<>>
            /\ StatePartition(ncs.yielded[k], CompleteCut).ok

\* ---------------------------------------------------------------------------
\* sia under the "maximal-state-first" strategy, as a function of its
\* arguments: the set of what the call can end with.  Ties among the greatest
\* compositional states fall to the order in which the tasks complete.

\* the exceptions max can meet while it takes the system intrinsic information
MaximalErrors(phi_structures) ==
    {SIIAt(phi_structures, i) :
       i \in {j \in DOMAIN phi_structures : ~SIIAt(phi_structures, j).ok}}

\* find_maximal_compositional_state, then evaluate_phi_structure for the
\* state found, which comes back from its task realized
MaximalStateFirst(phi_structures, check, chunksize, cut_chunksize) ==
    IF phi_structures = <<>> THEN {Raise("ValueError")}
    ELSE IF MaximalErrors(phi_structures) # {}
    THEN MaximalErrors(phi_structures)
    ELSE {evaluate_phi_structure(Subsystem, realize(phi_structures[i]),
                                 check, cut_chunksize) :
            i \in MaximalStates(phi_structures, chunksize)}

\* ---------------------------------------------------------------------------
\* One call of sia under each strategy, on the same subsystem, distinctions
\* and relations, with the default cut_chunksize.

\* the distinctions of the first-order mechanisms of the subsystem
FirstOrderCES ==
    {c \in OrderedCES :
        \A i \in DOMAIN c.items : Cardinality(c.items[i].mechanism) = 1}

BothInit ==
    /\ \E c \in FirstOrderCES : \E r \in InputRelationItems(c) :
       \E check \in BOOLEAN : \E chunksize \in 1..MaxChunk :
          both = [pc |-> "call",
                  all_distinctions |-> c,
                  all_relations |-> [kind |-> "realized", items |-> r],
                  check_trivial_reducibility |-> check,
                  chunksize |-> chunksize,
                  tasks |-> <<>>,
                  taken |-> {},
                  best |-> [kind |-> "None"],
                  exhaustive |-> None,
                  maximal |-> None]
    /\ gen = Idle /\ ncs = Idle /\ ext = Idle /\ con = Idle /\ ev = Idle
    /\ run = Idle /\ cev = Idle /\ obj = Idle /\ bc = Idle /\ occ = Idle

BothFull(b) ==
    PhiStructureInit(b.all_distinctions, b.all_relations, FALSE).value

\* the full phi structure is trivially reducible: both calls return the
\* null analysis before the strategies part
BothReturnNull ==
    /\ both.pc = "call"
    /\ both.check_trivial_reducibility
    /\ is_trivially_reducible(Subsystem, BothFull(both))
    /\ both' = [both EXCEPT
                  !.pc = "searching",
                  !.exhaustive = Some(null_sia(Subsystem, BothFull(both))),
                  !.maximal = Some(null_sia(Subsystem, BothFull(both)))]
    /\ UNCHANGED <<gen, ncs, ext, con, ev, run, cev, obj, bc, occ>>

\* both calls build the phi structures of the compositional states; the
\* exhaustive call submits one task per chunk of them
BothSearch ==
    /\ both.pc = "call"
    /\ ~(/\ both.check_trivial_reducibility
         /\ is_trivially_reducible(Subsystem, BothFull(both)))
    /\ both' = [both EXCEPT
                  !.pc = "searching",
                  !.tasks = partition_all(both.chunksize,
                                StatePhiStructures(both.all_distinctions,
                                                   both.all_relations))]
    /\ UNCHANGED <<gen, ncs, ext, con, ev, run, cev, obj, bc, occ>>

BothTaken(b, t, made) ==
    IF made.ok
    THEN [b EXCEPT !.taken = @ \cup {t}, !.best = Greater(@, made.value)]
    ELSE [b EXCEPT !.taken = @ \cup {t}, !.exhaustive = Some(made)]

\* exhaustive: max(results) takes the result of a task, in the order of
\* completion; an exception ends the call
BothExhaustiveTake(t) ==
    /\ both.pc = "searching"
    /\ both.exhaustive = None
    /\ t \in DOMAIN both.tasks
    /\ t \notin both.taken
    /\ both' = BothTaken(both, t,
                         evaluate_phi_structures(
                             Subsystem, both.tasks[t],
                             both.check_trivial_reducibility,
                             DEFAULT_CUT_CHUNKSIZE))
    /\ UNCHANGED <<gen, ncs, ext, con, ev, run, cev, obj, bc, occ>>

\* exhaustive: every result has been taken, max returns the greatest
BothExhaustiveReturn ==
    /\ both.pc = "searching"
    /\ both.exhaustive = None
    /\ both.taken = DOMAIN both.tasks
    /\ both' = [both EXCEPT
                  !.exhaustive =
                      Some(IF both.best.kind = "None" THEN Raise("ValueError")
                           ELSE Ok(both.best))]
    /\ UNCHANGED <<gen, ncs, ext, con, ev, run, cev, obj, bc, occ>>

\* maximal-state-first: the call ends with one of its outcomes
BothMaximalFirst ==
    /\ both.pc = "searching"
    /\ both.maximal = None
    /\ \E made \in MaximalStateFirst(
                       StatePhiStructures(both.all_distinctions,
                                          both.all_relations),
                       both.check_trivial_reducibility, both.chunksize,
                       DEFAULT_CUT_CHUNKSIZE) :
          both' = [both EXCEPT !.maximal = Some(made)]
    /\ UNCHANGED <<gen, ncs, ext, con, ev, run, cev, obj, bc, occ>>

BothNext ==
    \/ BothReturnNull
    \/ BothSearch
    \/ \E t \in DOMAIN both.tasks : BothExhaustiveTake(t)
    \/ BothExhaustiveReturn
    \/ BothMaximalFirst

SpecStrategies == BothInit /\ [][BothNext]_vars

\* both calls have returned an analysis
BothReturned ==
    /\ both.exhaustive # None
    /\ both.maximal # None
    /\ The(both.exhaustive).ok
    /\ The(both.maximal).ok

\* C22: on the same subsystem, distinctions and relations, the phi that sia
\* returns under maximal-state-first is never greater than the phi it
\* returns under the exhaustive strategy.
C22_MaximalFirstNotGreater ==
    BothReturned =>
        ~RatLT(The(both.exhaustive).value.phi, The(both.maximal).value.phi)

\* both calls have returned, over two compositional states, and the phi of
\* maximal-state-first is strictly the smaller: the state of greatest system
\* intrinsic information is not the state of greatest phi
C22_Witness ==
    /\ BothReturned
    /\ Len(StatePhiStructures(both.all_distinctions, both.all_relations)) = 2
    /\ RatLT(The(both.maximal).value.phi, The(both.exhaustive).value.phi)

=============================================================================
